---- MODULE Spec2Model ----
(***************************************************************************)
(* Model of the VK audience bot: the identifier resolver, the request      *)
(* gateway, group resolution and the paginated member harvest of           *)
(* vk_api_client.py, and the command handlers of bot.py that drive them.   *)
(*                                                                         *)
(* Python values are modelled as follows.                                  *)
(*   - a str is a sequence of one-character strings;                       *)
(*   - None is the record NoneV;                                           *)
(*   - a dict field that may be missing is <<>> when missing and <<v>>     *)
(*     when present (Get is dict.get);                                     *)
(*   - time is counted in ticks of 0.17 s in the gateway's timing model    *)
(*     and in seconds in the session model.                                *)
(***************************************************************************)
EXTENDS Integers, Sequences, FiniteSets, TLC

VARIABLES
    \* ---- identifier resolver (extract_group_id applied to an input) ----
    rLink,        \* the input string
    rDone,        \* has extract_group_id been applied
    rOut,         \* its result
    \* ---- one run of a command seen from inside (single caller) ----
    pc,           \* position of the run
    link,         \* the link argument of the command
    groupId,      \* result of extract_group_id inside get_group_info_universal
    groupInfo,    \* record held by the run (basic record inside v3, final record after)
    reqLog,       \* outbound requests issued so far in this run, in order
    firstHit,     \* record of the first response that held a record with id and name
    lastHit,      \* record of the latest such response
    resolved,     \* what get_group_info_universal returned
    lastOutcome,  \* transport outcome of the last gateway call
    lastReturn,   \* what make_request returned for it
    raised,       \* functions that let an exception escape to their caller
    outcome,      \* how the run ended
    savedGroup,   \* the group_id given to db.save_analysis
    command,      \* the command that is running
    \* ---- get_group_members ----
    harvestGroup, \* its group_id argument
    limit,        \* its limit argument
    count,        \* page size computed at entry
    offset,       \* offset of the next page
    members,      \* the accumulated list (a sequence of page segments)
    received,     \* every batch received, in order, never truncated
    pageLog,      \* the groups.getMembers requests issued, in order
    lastPage,     \* kind of the last page response
    result,       \* the returned list
    \* ---- gateway timing (several callers of the shared vk_client) ----
    now,          \* the clock
    gpc,          \* position of each caller inside make_request
    wake,         \* when each caller's asyncio.sleep ends
    started,      \* when each caller issued its first call
    calls,        \* calls completed by each caller
    posts,        \* times of the outbound HTTP requests, in order
    gLast,        \* the last completed call: its caller and its outcome
    \* ---- sessions of the bot (user_sessions) and the handlers in flight ----
    clock,        \* time.time(), in seconds
    sessions,     \* user_sessions: per user a session or NoSession
    tasks,        \* the handler invocations in flight, each suspended at an await
    rendered,     \* what the last callback rendered: "none", "fresh" or "stale" data
    \* ---- AudienceAnalyzer: one analysis and one comparison ----
    today,        \* datetime.now(): year, month, day
    aMembers,     \* the member list given to analyze_audience
    setOrder,     \* the order in which list(set(...)) gave each member's interests
    apc,          \* "ready", "analyzed", "compared", then the reply of /compare
    profile,      \* what analyze_audience returned for aMembers
    profile2,     \* the profile it is compared with
    comparison,   \* what compare_audiences returned
    \* ---- the database: tables analyses and user_stats, calls of save_analysis ----
    analyses,     \* the rows of analyses, in the order they were committed
    stats,        \* user_stats: per user no row, or the row's total_analyses
    saves,        \* calls of save_analysis so far
    saveLast      \* the last call: its user, what the database did, what it returned

resolverVars == <<rLink, rDone, rOut>>
runVars      == <<pc, link, groupId, groupInfo, reqLog, firstHit, lastHit, resolved,
                  lastOutcome, lastReturn, raised, outcome, savedGroup, command>>
harvestVars  == <<harvestGroup, limit, count, offset, members, received, pageLog, lastPage, result>>
gateVars     == <<now, gpc, wake, started, calls, posts, gLast>>
sessionVars  == <<clock, sessions, tasks, rendered>>
analyticsVars == <<today, aMembers, setOrder, apc, profile, profile2, comparison>>
storeVars == <<analyses, stats, saves, saveLast>>
vars == <<resolverVars, runVars, harvestVars, gateVars, sessionVars, analyticsVars, storeVars>>

-----------------------------------------------------------------------------
(* Python values *)

NoneV == [shape |-> "none"]
Absent == <<>>
Some(v) == <<v>>
Get(f, default) == IF f = Absent THEN default ELSE f[1]

Min(a, b) == IF a <= b THEN a ELSE b

-----------------------------------------------------------------------------
(* str helpers *)

Digits == {"0", "1", "2", "3", "4", "5", "6", "7", "8", "9"}
Whitespace == {" "}

IsDigit(s) == Len(s) > 0 /\ \A i \in 1..Len(s) : s[i] \in Digits

StartsWith(s, p) == Len(s) >= Len(p) /\ SubSeq(s, 1, Len(p)) = p

Drop(s, n) == SubSeq(s, n + 1, Len(s))

\* number of leading / trailing characters of s that are in cs
RECURSIVE LeadIn(_, _)
LeadIn(s, cs) == IF Len(s) > 0 /\ s[1] \in cs THEN 1 + LeadIn(Tail(s), cs) ELSE 0

RECURSIVE TrailIn(_, _)
TrailIn(s, cs) ==
    IF Len(s) > 0 /\ s[Len(s)] \in cs
    THEN 1 + TrailIn(SubSeq(s, 1, Len(s) - 1), cs) ELSE 0

LStrip(s, cs) == Drop(s, LeadIn(s, cs))
Strip(s, cs) ==
    LET t == LStrip(s, cs) IN SubSeq(t, 1, Len(t) - TrailIn(t, cs))

\* index of the first / last character of s that is in cs, 0 when there is none
FirstIn(s, cs) ==
    IF \E i \in 1..Len(s) : s[i] \in cs
    THEN CHOOSE i \in 1..Len(s) : s[i] \in cs /\ \A j \in 1..(i - 1) : s[j] \notin cs
    ELSE 0
LastIn(s, cs) ==
    IF \E i \in 1..Len(s) : s[i] \in cs
    THEN CHOOSE i \in 1..Len(s) : s[i] \in cs /\ \A j \in (i + 1)..Len(s) : s[j] \notin cs
    ELSE 0

\* s up to (not including) the first character in cs
Before(s, cs) == IF FirstIn(s, cs) = 0 THEN s ELSE SubSeq(s, 1, FirstIn(s, cs) - 1)

HttpPrefix  == <<"h", "t", "t", "p", ":", "/", "/">>
HttpsPrefix == <<"h", "t", "t", "p", "s", ":", "/", "/">>
PublicWord  == <<"p", "u", "b", "l", "i", "c">>
ClubWord    == <<"c", "l", "u", "b">>
EventWord   == <<"e", "v", "e", "n", "t">>

\* urllib.parse.urlparse(link).path for a link that starts with http:// or
\* https://: the network location runs to the first of / ? #, the fragment and
\* the query are split off, and ;params are split off the last path segment.
\* Raises ValueError when the network location has unbalanced brackets.
UrlRaises(lnk) ==
    LET rest == Drop(lnk, IF StartsWith(lnk, HttpsPrefix) THEN 8 ELSE 7)
        netloc == Before(rest, {"/", "?", "#"})
        hasOpen == \E i \in 1..Len(netloc) : netloc[i] = "["
        hasClose == \E i \in 1..Len(netloc) : netloc[i] = "]"
    IN  hasOpen # hasClose

UrlPath(lnk) ==
    LET rest == Drop(lnk, IF StartsWith(lnk, HttpsPrefix) THEN 8 ELSE 7)
        netloc == Before(rest, {"/", "?", "#"})
        url == Before(Before(Drop(rest, Len(netloc)), {"#"}), {"?"})
        slash == LastIn(url, {"/"})
        semi == FirstIn(Drop(url, slash), {";"})
    IN  IF semi = 0 THEN url ELSE SubSeq(url, 1, slash + semi - 1)

\* path.split('/')[-1]
LastPart(path) == Drop(path, LastIn(path, {"/"}))

\* re.findall(r'\d+', s)[0] when there is a match, <<>> when there is none
FirstNumber(s) ==
    LET d == FirstIn(s, Digits)
    IN  IF d = 0 THEN <<>>
        ELSE LET t == Drop(s, d - 1) IN SubSeq(t, 1, LeadIn(t, Digits))

\* identifier = parts[-1] of extract_group_id for a link that is not all
\* digits: the last segment of the path, <<>> when the path is empty.
LastSegment(group_link) ==
    LET lnk0 == LStrip(Strip(group_link, Whitespace), {"@"})
        lnk == IF StartsWith(lnk0, HttpPrefix) \/ StartsWith(lnk0, HttpsPrefix)
               THEN lnk0 ELSE HttpsPrefix \o lnk0
    IN  LastPart(Strip(UrlPath(lnk), {"/"}))

\* VKAPIClient.extract_group_id
extract_group_id(group_link) ==
    LET lnk0 == LStrip(Strip(group_link, Whitespace), {"@"})
        lnk == IF StartsWith(lnk0, HttpPrefix) \/ StartsWith(lnk0, HttpsPrefix)
               THEN lnk0 ELSE HttpsPrefix \o lnk0
        path == Strip(UrlPath(lnk), {"/"})
        identifier == LastPart(path)
    IN  IF IsDigit(lnk0) THEN Some(lnk0)
        ELSE IF UrlRaises(lnk) THEN Absent
        ELSE IF Len(path) = 0 THEN Absent
        ELSE IF StartsWith(identifier, PublicWord) \/ StartsWith(identifier, ClubWord)
                \/ StartsWith(identifier, EventWord)
             THEN (IF FirstNumber(identifier) # <<>> THEN Some(FirstNumber(identifier))
                   ELSE Absent)
        ELSE Some(identifier)

-----------------------------------------------------------------------------
(* The request gateway: VKAPIClient.make_request *)

\* Error codes the remote API may answer with: 5 is the invalid-token error,
\* 6 is "too many requests", the others are the ones make_request maps.
RemoteCodes == {5, 6, 15, 18, 100, 113}

\* What one HTTP exchange can do, apart from answering with a payload.
FailureOutcomes ==
    [kind : {"timeout", "network_error", "http_error", "json_error", "not_object"}]
        \cup [kind : {"remote_error"}, code : RemoteCodes]

\* Failures that a later attempt may not repeat.
TransientKinds == {"timeout", "network_error", "http_error", "json_error", "not_object"}

Ok(payload) == [kind |-> "ok", payload |-> payload]

Return(v) == [tag |-> "return", value |-> v]
Raise(e)  == [tag |-> "raise", exc |-> e]

ErrorRecord(name) == [shape |-> "error", error |-> name]

\* The exception the body of make_request's try block ends with, if any:
\* asyncio.TimeoutError, aiohttp.ClientError, or the AttributeError / TypeError
\* of reading a JSON body that is not an object.
BodyRaises(o) ==
    CASE o.kind = "timeout"       -> "TimeoutError"
      [] o.kind = "network_error" -> "ClientError"
      [] o.kind = "not_object"    -> "AttributeError"
      [] OTHER                    -> "none"

\* The value the body returns when it raises nothing.
BodyValue(o) ==
    CASE o.kind = "http_error" -> NoneV
      [] o.kind = "json_error" -> NoneV
      [] o.kind = "remote_error" ->
            (CASE o.code = 15  -> ErrorRecord("group_closed")
               [] o.code = 18  -> ErrorRecord("group_deleted")
               [] o.code = 100 -> ErrorRecord("invalid_param")
               [] o.code = 113 -> ErrorRecord("invalid_id")
               [] OTHER        -> NoneV)
      [] OTHER -> o.payload

MakeRequestDropsCatchAll(o) ==
    IF BodyRaises(o) \in {"TimeoutError", "ClientError"} THEN Return(NoneV)
    ELSE IF BodyRaises(o) # "none" THEN Raise(BodyRaises(o))
    ELSE Return(BodyValue(o))

\* make_request: every exception of the body is caught and becomes None.
MakeRequest(o) ==
    IF BodyRaises(o) # "none" THEN Return(NoneV) ELSE Return(BodyValue(o))

\* What the model remembers of an exchange and of the value returned for it:
\* the payload of an answered request is remembered only as "a payload".
OutcomeSeen(o) == IF o.kind = "ok" THEN [kind |-> "ok"] ELSE o
ReturnSeen(r) ==
    IF r.tag = "return" /\ r.value.shape \notin {"none", "error"}
    THEN Return([shape |-> "payload"]) ELSE r

\* Python truthiness of a value make_request returns.
Truthy(v) ==
    CASE v.shape = "none"  -> FALSE
      [] v.shape = "list"  -> Len(v.items) > 0
      [] v.shape = "empty" -> FALSE
      [] OTHER             -> TRUE

-----------------------------------------------------------------------------
(* Responses of groups.getById *)

ScalarItem == [notdict |-> TRUE]

\* Group objects a response may hold: any field may be missing, the id may
\* carry the sign the API uses for communities, is_closed is 0, 1 or 2.
GroupItems ==
    [id : {Absent, <<7>>, <<-7>>}, name : {Absent, <<"G">>},
     is_closed : {Absent, <<0>>, <<1>>, <<2>>},
     members_count : {Absent, <<0>>, <<50>>, <<5000>>},
     screen_name : {Absent},
     deactivated : {Absent, <<"banned">>}]

\* The objects tried in the less usual response shapes.
WrappedItems ==
    [id : {<<7>>}, name : {Absent, <<"G">>}, is_closed : {Absent, <<0>>},
     members_count : {<<50>>}, screen_name : {Absent, <<"g">>}, deactivated : {Absent}]

ItemLists(items) == {<<>>} \cup {<<g>> : g \in items \cup {ScalarItem}}

GroupPayloads ==
    [shape : {"list"}, items : ItemLists(GroupItems)]
        \cup [shape : {"groups"}, items : ItemLists(WrappedItems)]
        \cup [shape : {"nested"},
              inner : [shape : {"list", "groups"}, items : ItemLists(WrappedItems)]]
        \cup {NoneV, [shape |-> "empty"], [shape |-> "other"]}

GroupOutcomes == FailureOutcomes \cup {Ok(p) : p \in GroupPayloads}

IsDict(item) == "notdict" \notin DOMAIN item

\* VKAPIClient._extract_group_info_from_response
RECURSIVE ExtractGroupInfo(_)
ExtractGroupInfo(response) ==
    IF ~Truthy(response) THEN NoneV
    ELSE IF response.shape = "nested" THEN ExtractGroupInfo(response.inner)
    ELSE IF response.shape \notin {"list", "groups"} THEN NoneV
    ELSE IF Len(response.items) = 0 THEN NoneV
    ELSE LET group_info == response.items[1] IN
         IF ~IsDict(group_info) THEN NoneV
         ELSE IF group_info.id = Absent \/ group_info.name = Absent THEN NoneV
         ELSE [shape |-> "group",
               id |-> group_info.id,
               name |-> group_info.name,
               is_closed |-> Some(Get(group_info.is_closed, 1)),
               members_count |-> Some(Get(group_info.members_count, 0)),
               screen_name |-> Some(Get(group_info.screen_name, <<"club", group_info.id[1]>>)),
               deactivated |-> group_info.deactivated]

\* int(s) and str(n)
DigitString == <<"0", "1", "2", "3", "4", "5", "6", "7", "8", "9">>
DigitValue(c) == (CHOOSE i \in 1..10 : DigitString[i] = c) - 1

RECURSIVE ParseDigits(_)
ParseDigits(s) ==
    IF Len(s) = 0 THEN 0
    ELSE 10 * ParseDigits(SubSeq(s, 1, Len(s) - 1)) + DigitValue(s[Len(s)])

IntOfStripped(t) ==
    IF Len(t) > 0 /\ t[1] = "-"
    THEN (IF IsDigit(Tail(t)) THEN Some(0 - ParseDigits(Tail(t))) ELSE Absent)
    ELSE IF Len(t) > 0 /\ t[1] = "+"
    THEN (IF IsDigit(Tail(t)) THEN Some(ParseDigits(Tail(t))) ELSE Absent)
    ELSE IF IsDigit(t) THEN Some(ParseDigits(t)) ELSE Absent

\* int(s) for a str: surrounding whitespace and one sign are accepted;
\* Absent stands for the ValueError of anything else.
IntOf(s) == IntOfStripped(Strip(s, Whitespace))

RECURSIVE NatStr(_)
NatStr(n) ==
    IF n < 10 THEN <<DigitString[n + 1]>>
    ELSE Append(NatStr(n \div 10), DigitString[(n % 10) + 1])

\* str(n) for an int
StrOfInt(n) == IF n < 0 THEN <<"-">> \o NatStr(0 - n) ELSE NatStr(n)

-----------------------------------------------------------------------------
(* The member harvest: VKAPIClient.get_group_members *)

\* The page size of one groups.getMembers request.
MaxPerRequest == 1000

\* The limit cmd_analyze asks for before it looks at the group's size.
AnalyzeLimit == 1000

\* A segment stands for the first n records of the page-th page received.
Segment(page, n) == [page |-> page, n |-> n]

RECURSIVE Total(_)
Total(segs) == IF segs = <<>> THEN 0 ELSE Head(segs).n + Total(Tail(segs))

\* members[:lim] for lim > 0
RECURSIVE Truncate(_, _)
Truncate(segs, lim) ==
    IF segs = <<>> \/ lim <= 0 THEN <<>>
    ELSE IF Head(segs).n <= lim
         THEN <<Head(segs)>> \o Truncate(Tail(segs), lim - Head(segs).n)
         ELSE <<Segment(Head(segs).page, lim)>>

\* Lengths a page of at most cnt requested records may arrive with: none, one,
\* one short of the page size, the page size, and one more than was asked for.
PageLens(cnt) == {n \in {0, 1, cnt - 1, cnt, cnt + 1} : n >= 0}

\* Payloads of groups.getMembers: a page whose items is a list of n records,
\* null, or a number; or a payload that is no page at all.
MemberPayloads(cnt) ==
    {[shape |-> "page", kind |-> "list", n |-> n] : n \in PageLens(cnt)}
        \cup [shape : {"page"}, kind : {"null", "number"}, n : {0}]
        \cup {NoneV, [shape |-> "empty"], [shape |-> "other"],
              [shape |-> "list", items |-> <<ScalarItem>>]}

MemberOutcomes(cnt) == FailureOutcomes \cup {Ok(p) : p \in MemberPayloads(cnt)}

\* count = min(limit, 1000)
PageSize(lim) == Min(lim, MaxPerRequest)

\* The loop going on when the list has just reached the limit
LoopContinuesAtLimit(mem, lim) == Total(mem) <= lim

\* while len(members) < limit
LoopContinues(mem, lim) == Total(mem) < lim

\* if not response: break / not a dict or no 'items': break
PageFailed(response) == ~Truthy(response) \/ response.shape # "page"

OnPageFailureDiscards(mem) == <<>>

\* A failed page leaves the loop; the function returns what it holds.
OnPageFailure(mem) == mem

\* except Exception: return []
OnException(mem) == Return(<<>>)

\* if len(members) >= limit: members = members[:limit]
AfterFullPage(mem, lim) == IF Total(mem) >= lim THEN Truncate(mem, lim) ELSE mem

OffsetStays(off, n) == off

\* offset += len(batch)
NextOffset(off, n) == off + n

\* One pass through the loop body, given what make_request gave back (r) for
\* the page-th request: the new list, the new offset, the batch taken, the
\* kind of page, and whether the loop is left. The kind "exception" is an
\* exception inside the try block: one that make_request let through, or the
\* TypeError of members.extend(batch) for items that are a number.
HarvestIteration(mem, off, cnt, lim, r, page) ==
    IF r.tag = "raise"
    THEN [members |-> mem, offset |-> off, batch |-> <<>>,
          kind |-> "exception", done |-> TRUE]
    ELSE IF PageFailed(r.value)
    THEN [members |-> OnPageFailure(mem), offset |-> off, batch |-> <<>>,
          kind |-> IF Truthy(r.value) THEN "bad_structure" ELSE "failed", done |-> TRUE]
    ELSE IF r.value.kind = "null" \/ (r.value.kind = "list" /\ r.value.n = 0)
    THEN [members |-> mem, offset |-> off, batch |-> <<>>,
          kind |-> "empty", done |-> TRUE]
    ELSE IF r.value.kind = "number"
    THEN [members |-> mem, offset |-> off, batch |-> <<>>,
          kind |-> "exception", done |-> TRUE]
    ELSE LET batch == Segment(page, r.value.n)
             ext == Append(mem, batch)
         IN  IF r.value.n < cnt
             THEN [members |-> ext, offset |-> NextOffset(off, r.value.n), batch |-> <<batch>>,
                   kind |-> "short", done |-> TRUE]
             ELSE [members |-> AfterFullPage(ext, lim), offset |-> NextOffset(off, r.value.n),
                   batch |-> <<batch>>, kind |-> "full",
                   done |-> ~LoopContinues(AfterFullPage(ext, lim), lim)]

\* Entry of get_group_members(group_id, limit).
EnterHarvest(gid, lim) ==
    /\ harvestGroup' = gid
    /\ limit' = lim
    /\ count' = PageSize(lim)
    /\ offset' = 0
    /\ members' = <<>>
    /\ received' = <<>>
    /\ pageLog' = <<>>
    /\ lastPage' = "none"
    /\ result' = <<>>
    /\ pc' = IF LoopContinues(<<>>, lim) THEN "harvest" ELSE "returned"

\* One groups.getMembers request and the loop body that follows it.
HarvestPage ==
    /\ pc = "harvest"
    /\ \E o \in MemberOutcomes(count) :
          LET r == MakeRequest(o)
              h == HarvestIteration(members, offset, count, limit, r, Len(pageLog) + 1)
          IN  /\ pageLog' = Append(pageLog, [offset |-> offset, count |-> count])
              /\ lastOutcome' = OutcomeSeen(o)
              /\ lastReturn' = ReturnSeen(r)
              /\ raised' = raised
                    \cup (IF r.tag = "raise" THEN {"make_request"} ELSE {})
                    \cup (IF h.kind = "exception" /\ OnException(members).tag = "raise"
                          THEN {"get_group_members"} ELSE {})
              /\ members' = h.members
              /\ offset' = h.offset
              /\ received' = received \o h.batch
              /\ lastPage' = h.kind
              /\ result' = IF h.kind = "exception"
                           THEN (IF OnException(members).tag = "raise" THEN <<>>
                                 ELSE OnException(members).value)
                           ELSE IF h.done THEN h.members ELSE result
              /\ pc' = IF h.done THEN "returned" ELSE "harvest"
    /\ UNCHANGED <<link, groupId, groupInfo, reqLog, firstHit, lastHit, resolved, outcome,
                   savedGroup, command, harvestGroup, limit, count>>
    /\ UNCHANGED <<resolverVars, gateVars, sessionVars, analyticsVars, storeVars>>

-----------------------------------------------------------------------------
(* Inputs of the resolver *)

VkHost       == <<"v", "k", ".", "c", "o", "m", "/">>
Durov        == <<"d", "u", "r", "o", "v">>
Public123456 == <<"p", "u", "b", "l", "i", "c", "1", "2", "3", "4", "5", "6">>
Club1        == <<"c", "l", "u", "b", "1">>
Event5x      == <<"e", "v", "e", "n", "t", "5", "x", "9">>
Clubhouse    == <<"c", "l", "u", "b", "h", "o", "u", "s", "e">>
Number123    == <<"1", "2", "3">>
NotValid     == <<"n", "o", "t", " ", "a", " ", "v", "a", "l", "i", "d", " ",
                 "s", "t", "r", "i", "n", "g", "!", "!">>

PublicUrl == HttpsPrefix \o VkHost \o Public123456
AtDurov   == <<"@">> \o Durov

LinkPrefixes ==
    {<<>>, <<"@">>, <<" ">>, HttpPrefix, HttpsPrefix, VkHost, HttpsPrefix \o VkHost,
     HttpsPrefix \o <<"m", ".">> \o VkHost, HttpsPrefix \o <<"[">> \o VkHost}
LinkBodies ==
    {<<>>, Durov, Public123456, Club1, Event5x, Clubhouse, Number123, NotValid,
     <<"a", "/", "b">>}
LinkSuffixes == {<<>>, <<"/">>, <<"?", "w", "=", "1", "/", "2">>, <<" ">>, <<";", "x">>}

Links == {p \o b \o x : p \in LinkPrefixes, b \in LinkBodies, x \in LinkSuffixes}

\* Links given to /analyze in the run model.
RunLinks == {PublicUrl, AtDurov, VkHost \o Durov, NotValid}

-----------------------------------------------------------------------------
(* Group resolution and the /analyze run *)

UniversalAcceptsNothing(res) == FALSE

\* get_group_info_universal: "if result: return result"
UniversalAccepts(res) == res # NoneV

GroupClosedOnlyWhenOne(gi) == Get(gi.is_closed, 1) = 1

\* cmd_analyze: group_info.get('is_closed', 1) != 0
GroupClosed(gi) == Get(gi.is_closed, 1) # 0

GroupEmptyNever(gi) == FALSE

\* cmd_analyze: group_info.get('members_count', 0) == 0
GroupEmpty(gi) == Get(gi.members_count, 0) = 0

\* cmd_analyze: members_limit = min(1000, group_info['members_count'])
MembersLimit(gi) == Min(AnalyzeLimit, gi.members_count[1])

\* The commands that call get_group_members for the group of their link.
Commands == {"analyze", "quick", "compare", "competitors", "text_analysis"}

\* The command leaves on group_info.get('is_closed', 1) != 0: all but
\* cmd_text_analysis, which tests only "if not group_info".
ChecksClosed(cmd) == cmd # "text_analysis"

\* The command leaves on group_info.get('members_count', 0) == 0:
\* cmd_analyze and cmd_quick.
ChecksEmpty(cmd) == cmd \in {"analyze", "quick"}

\* The limit the command passes to get_group_members for that group.
HarvestLimit(cmd, gi) ==
    CASE cmd = "quick"         -> Min(200, gi.members_count[1])
      [] cmd = "compare"       -> 200
      [] cmd = "competitors"   -> Min(500, Get(gi.members_count, 0))
      [] cmd = "text_analysis" -> 10
      [] OTHER                 -> MembersLimit(gi)

\* get_group_info: a record with a truthy 'deactivated' is dropped.
GetGroupInfo(rec) ==
    IF rec = NoneV THEN NoneV
    ELSE IF Get(rec.deactivated, "") # "" THEN NoneV
    ELSE rec

\* A gateway call of the resolution: the request is logged with whether its
\* response held a record with an id and a name.
LogRequest(shape, o, r, rec) ==
    /\ reqLog' = Append(reqLog, [req |-> shape, hit |-> rec # NoneV])
    /\ lastOutcome' = OutcomeSeen(o)
    /\ lastReturn' = ReturnSeen(r)
    /\ raised' = IF r.tag = "raise" THEN raised \cup {"make_request"} ELSE raised
    /\ firstHit' = IF firstHit = NoneV THEN rec ELSE firstHit
    /\ lastHit' = IF rec # NoneV THEN rec ELSE lastHit

\* What an approach made of one response (an exception of make_request leaves
\* the approach and is caught by the loop of get_group_info_universal).
Extracted(r) == IF r.tag = "raise" THEN NoneV ELSE ExtractGroupInfo(r.value)

\* get_group_info_universal returns rec; get_group_info and cmd_analyze go on
\* without suspending until the first groups.getMembers request or the end.
ResolutionReturns(rec) ==
    LET gi == GetGroupInfo(rec)
    IN  /\ resolved' = rec
        /\ groupInfo' = gi
        /\ IF gi = NoneV
           THEN /\ outcome' = "not_found" /\ pc' = "done" /\ UNCHANGED harvestVars
           ELSE IF ChecksClosed(command) /\ GroupClosed(gi)
           THEN /\ outcome' = "group_closed" /\ pc' = "done" /\ UNCHANGED harvestVars
           ELSE IF ChecksEmpty(command) /\ GroupEmpty(gi)
           THEN /\ outcome' = "group_empty" /\ pc' = "done" /\ UNCHANGED harvestVars
           ELSE IF command = "text_analysis"
           THEN /\ outcome' = "none" /\ pc' = "text_content" /\ UNCHANGED harvestVars
           ELSE IF command = "competitors"
           THEN \/ /\ outcome' = "no_competitors" /\ pc' = "done" /\ UNCHANGED harvestVars
                \/ /\ outcome' = "none" /\ EnterHarvest(gi.id, HarvestLimit(command, gi))
           ELSE /\ outcome' = "none" /\ EnterHarvest(gi.id, HarvestLimit(command, gi))

\* /analyze <link>: extract_group_id, then the first approach if it resolved.
StartAnalyze ==
    /\ pc = "idle"
    /\ \E l \in RunLinks :
          /\ link' = l
          /\ groupId' = extract_group_id(l)
          /\ IF extract_group_id(l) = Absent
             THEN /\ ResolutionReturns(NoneV)
             ELSE /\ pc' = "v1"
                  /\ UNCHANGED <<groupInfo, resolved, outcome, harvestVars>>
    /\ UNCHANGED <<reqLog, firstHit, lastHit, lastOutcome, lastReturn, raised, savedGroup,
                   command>>
    /\ UNCHANGED <<resolverVars, gateVars, sessionVars, analyticsVars, storeVars>>

\* _get_group_info_v1 / _get_group_info_v2: one request, one extraction.
ResolveFlat(shape, next) ==
    /\ pc = shape
    /\ \E o \in GroupOutcomes :
          LET r == MakeRequest(o)
              rec == Extracted(r)
          IN  /\ LogRequest(shape, o, r, rec)
              /\ IF UniversalAccepts(rec)
                 THEN ResolutionReturns(rec)
                 ELSE /\ pc' = next
                      /\ UNCHANGED <<groupInfo, resolved, outcome, harvestVars>>
    /\ UNCHANGED <<link, groupId, savedGroup, command>>
    /\ UNCHANGED <<resolverVars, gateVars, sessionVars, analyticsVars, storeVars>>

ResolveV1 == ResolveFlat("v1", "v2")
ResolveV2 == ResolveFlat("v2", "v3")

\* _get_group_info_v3, first request (no fields): a basic record with an id
\* leads to the second request, anything else ends the resolution with None.
ResolveV3 ==
    /\ pc = "v3"
    /\ \E o \in GroupOutcomes :
          LET r == MakeRequest(o)
              rec == Extracted(r)
          IN  /\ LogRequest("v3", o, r, rec)
              /\ IF rec # NoneV
                 THEN /\ pc' = "v3_detail"
                      /\ groupInfo' = rec
                      /\ UNCHANGED <<resolved, outcome, harvestVars>>
                 ELSE ResolutionReturns(NoneV)
    /\ UNCHANGED <<link, groupId, savedGroup, command>>
    /\ UNCHANGED <<resolverVars, gateVars, sessionVars, analyticsVars, storeVars>>

\* _get_group_info_v3, second request (with fields): its record if it has
\* one, else the basic record.
ResolveV3Detail ==
    /\ pc = "v3_detail"
    /\ \E o \in GroupOutcomes :
          LET r == MakeRequest(o)
              rec == Extracted(r)
              v3 == IF r.tag = "raise" THEN NoneV
                    ELSE IF rec # NoneV THEN rec ELSE groupInfo
          IN  /\ LogRequest("v3_detail", o, r, rec)
              /\ ResolutionReturns(IF UniversalAccepts(v3) THEN v3 ELSE NoneV)
    /\ UNCHANGED <<link, groupId, savedGroup, command>>
    /\ UNCHANGED <<resolverVars, gateVars, sessionVars, analyticsVars, storeVars>>

\* get_group_text_content(group_info['id']): the group is resolved once more,
\* from "club<id>", for its description; whatever that gives (the record or
\* None), get_group_members is then called for the id with limit 10. The
\* requests of this second resolution are not followed.
TextContent ==
    /\ pc = "text_content"
    /\ EnterHarvest(groupInfo.id, HarvestLimit(command, groupInfo))
    /\ UNCHANGED <<link, groupId, groupInfo, reqLog, firstHit, lastHit, resolved, lastOutcome,
                   lastReturn, raised, outcome, savedGroup, command>>
    /\ UNCHANGED <<resolverVars, gateVars, sessionVars, analyticsVars, storeVars>>

\* db.save_analysis(user_id, group_id=str(group_info['id']), ...)
SavedGroupId(gi) == StrOfInt(gi.id[1])

\* cmd_analyze after get_group_members: "if not members", or the handler's
\* "except Exception" when the call raised; else the analysis and its saving.
AnalyzeAfterHarvest ==
    /\ pc = "returned"
    /\ pc' = "done"
    /\ outcome' = IF "get_group_members" \in raised THEN "internal_error"
                   ELSE IF Total(result) = 0 THEN "no_members" ELSE "analyzed"
    /\ savedGroup' = IF "get_group_members" \notin raised /\ Total(result) # 0
                      THEN Some(SavedGroupId(groupInfo)) ELSE savedGroup
    /\ UNCHANGED <<link, groupId, groupInfo, reqLog, firstHit, lastHit, resolved,
                   lastOutcome, lastReturn, raised, command>>
    /\ UNCHANGED <<harvestVars, resolverVars, gateVars, sessionVars, analyticsVars, storeVars>>

-----------------------------------------------------------------------------
(* The resolver applied to one input *)

Resolve ==
    /\ ~rDone
    /\ rDone' = TRUE
    /\ rOut' = extract_group_id(rLink)
    /\ UNCHANGED <<rLink, runVars, harvestVars, gateVars, sessionVars, analyticsVars, storeVars>>

-----------------------------------------------------------------------------
(* Timing of make_request for callers that share the one vk_client *)

\* Handlers that run at the same time, each calling the gateway in sequence.
Callers == {"p1", "p2"}

\* config.REQUEST_DELAY = 0.34 s, in ticks of 0.17 s.
RequestDelay == 2

\* Calls one caller makes, and the last tick of the clock.
MaxCalls == 2
MaxClock == 5

WakeTimeNoDelay(t) == t

\* await asyncio.sleep(self.request_delay), entered at time t, ends no
\* earlier than this.
WakeTime(t) == t + RequestDelay

Tick ==
    /\ now < MaxClock
    /\ now' = now + 1
    /\ UNCHANGED <<gpc, wake, started, calls, posts, gLast>>
    /\ UNCHANGED <<resolverVars, runVars, harvestVars, sessionVars, analyticsVars, storeVars>>

\* A caller enters make_request and starts to sleep.
GateCall(p) ==
    /\ gpc[p] = "idle"
    /\ calls[p] < MaxCalls
    /\ gpc' = [gpc EXCEPT ![p] = "sleeping"]
    /\ wake' = [wake EXCEPT ![p] = WakeTime(now)]
    /\ started' = [started EXCEPT ![p] = IF calls[p] = 0 THEN now ELSE @]
    /\ UNCHANGED <<now, calls, posts, gLast>>
    /\ UNCHANGED <<resolverVars, runVars, harvestVars, sessionVars, analyticsVars, storeVars>>

\* The sleep is over: the caller issues its HTTP request (session.post).
GateSleepEnds(p) ==
    /\ gpc[p] = "sleeping"
    /\ now >= wake[p]
    /\ gpc' = [gpc EXCEPT ![p] = "posting"]
    /\ posts' = Append(posts, now)
    /\ UNCHANGED <<now, wake, started, calls, gLast>>
    /\ UNCHANGED <<resolverVars, runVars, harvestVars, sessionVars, analyticsVars, storeVars>>

\* The exchange ends, one way or another, and make_request returns.
GateResponse(p) ==
    /\ gpc[p] = "posting"
    /\ \E o \in FailureOutcomes \cup {Ok([shape |-> "other"])} :
          gLast' = [caller |-> p, outcome |-> o.kind]
    /\ gpc' = [gpc EXCEPT ![p] = "idle"]
    /\ calls' = [calls EXCEPT ![p] = @ + 1]
    /\ UNCHANGED <<now, wake, started, posts>>
    /\ UNCHANGED <<resolverVars, runVars, harvestVars, sessionVars, analyticsVars, storeVars>>

-----------------------------------------------------------------------------
(* user_sessions and the handlers of bot.py that read and write it.          *)
(* A handler runs without interruption between two awaits; a task is one     *)
(* handler invocation, resumed one await at a time. What the awaited calls   *)
(* give back (the group, the members, an exception) is chosen freely.        *)

Users == {"u1", "u2"}
TaskIds == {"t1", "t2"}

\* cleanup_old_sessions: timeout = 3600; report callbacks: 3600
SessionTimeout == 3600
ReportTimeout == 3600

\* The clock starts at StartTime and advances TimeStep at a time up to MaxTime.
StartTime == 100000
TimeStep == 1900
MaxTime == 104000

NoSession == [present |-> FALSE]
IdleTask == [kind |-> "none", user |-> "none", pc |-> "idle"]

\* The dict a command stores when it starts: status and created_at.
NewSession(status, t) ==
    [status |-> Some(status), created_at |-> Some(t), report |-> Absent, text |-> Absent]

\* The dict cmd_text_analysis stores: text_analysis_data only.
TextSession(t) ==
    [status |-> Absent, created_at |-> Absent, report |-> Absent, text |-> Some(t)]

\* cleanup_old_sessions
CleanupOldSessions(ss, t) ==
    [u \in Users |->
        IF ss[u] # NoSession /\ t - Get(ss[u].created_at, 0) > SessionTimeout
        THEN NoSession ELSE ss[u]]

DeletedNot(ss, u) == ss

\* "del user_sessions[user_id]" inside a handler whose except clause deletes
\* the session again if it is there: either way the user's session is gone.
Deleted(ss, u) == [ss EXCEPT ![u] = NoSession]

\* cmd_analyze: user_id in user_sessions and status == 'analyzing'
AnalyzeGuard(ss, u) == ss[u] # NoSession /\ Get(ss[u].status, "") = "analyzing"

\* cmd_competitors: status == 'analyzing_competitors'
CompetitorsGuard(ss, u) ==
    ss[u] # NoSession /\ Get(ss[u].status, "") = "analyzing_competitors"

SetTask(t, kind, u, at) == tasks' = [tasks EXCEPT ![t] = [kind |-> kind, user |-> u, pc |-> at]]
EndTask(t) == tasks' = [tasks EXCEPT ![t] = IdleTask]

OtherVarsUnchanged == UNCHANGED <<resolverVars, runVars, harvestVars, gateVars, analyticsVars, storeVars>>

PassTime ==
    /\ clock + TimeStep <= MaxTime
    /\ clock' = clock + TimeStep
    /\ UNCHANGED <<sessions, tasks, rendered>>
    /\ OtherVarsUnchanged

\* /analyze <link> up to its first await: cleanup, the guard, the new session.
AnalyzeStart(t, u) ==
    /\ tasks[t] = IdleTask
    /\ LET ss == CleanupOldSessions(sessions, clock)
       IN  IF AnalyzeGuard(ss, u)
           THEN /\ sessions' = ss
                /\ UNCHANGED tasks
           ELSE /\ sessions' = [ss EXCEPT ![u] = NewSession("analyzing", clock)]
                /\ SetTask(t, "analyze", u, "a_info")
    /\ UNCHANGED <<clock, rendered>>
    /\ OtherVarsUnchanged

\* A step of a command that ends it with "del user_sessions[user_id]", or with
\* an exception (the handlers' except clauses delete the session if present).
\* ends: the results of the awaited call that end the command.
\* goes: the result with which it goes on, after user_sessions[user_id].update(),
\* which raises KeyError when the session is gone.
CommandStep(t, kind, at, ends, next) ==
    /\ tasks[t].kind = kind /\ tasks[t].pc = at
    /\ \E res \in ends \cup {"ok", "exception"} :
          LET u == tasks[t].user
          IN  IF res = "ok" /\ sessions[u] # NoSession
              THEN /\ SetTask(t, kind, u, next)
                   /\ UNCHANGED sessions
              ELSE /\ sessions' = Deleted(sessions, u)
                   /\ EndTask(t)
    /\ UNCHANGED <<clock, rendered>>
    /\ OtherVarsUnchanged

\* cmd_analyze after get_group_info: none, closed and empty end the run.
AnalyzeInfo(t) == CommandStep(t, "analyze", "a_info", {"none", "closed", "empty"}, "a_members")
\* after get_group_members: an empty list ends the run.
AnalyzeMembers(t) == CommandStep(t, "analyze", "a_members", {"empty"}, "a_analysis")
\* after analyze_audience
AnalyzeAnalysis(t) == CommandStep(t, "analyze", "a_analysis", {}, "a_save")
\* after save_analysis
AnalyzeSave(t) == CommandStep(t, "analyze", "a_save", {}, "a_report")

\* send_comprehensive_report after its message.answer: report_data is stored
\* if the user has a session; then cmd_analyze sets status = 'completed'.
AnalyzeReport(t) ==
    /\ tasks[t].kind = "analyze" /\ tasks[t].pc = "a_report"
    /\ \E res \in {"ok", "exception"} :
          LET u == tasks[t].user
          IN  IF res = "ok" /\ sessions[u] # NoSession
              THEN sessions' = [sessions EXCEPT
                       ![u].report = Some([by |-> "analyze", created_at |-> clock]),
                       ![u].status = Some("completed")]
              ELSE sessions' = Deleted(sessions, u)
    /\ EndTask(t)
    /\ UNCHANGED <<clock, rendered>>
    /\ OtherVarsUnchanged

\* /competitors <link> up to its first await.
CompetitorsStart(t, u) ==
    /\ tasks[t] = IdleTask
    /\ LET ss == CleanupOldSessions(sessions, clock)
       IN  IF CompetitorsGuard(ss, u)
           THEN /\ sessions' = ss
                /\ UNCHANGED tasks
           ELSE /\ sessions' = [ss EXCEPT ![u] = NewSession("analyzing_competitors", clock)]
                /\ SetTask(t, "competitors", u, "c_info")
    /\ UNCHANGED <<clock, rendered>>
    /\ OtherVarsUnchanged

\* cmd_competitors after get_group_info, after find_similar_groups, after
\* the loop over the competitors.
CompetitorsInfo(t) == CommandStep(t, "competitors", "c_info", {"none", "closed"}, "c_find")
CompetitorsFound(t) == CommandStep(t, "competitors", "c_find", {"empty"}, "c_analyze")
CompetitorsAnalyzed(t) == CommandStep(t, "competitors", "c_analyze", {"empty"}, "c_target")

\* cmd_competitors after the target's harvest and send_competitor_report:
\* status = 'completed' and report_data.
CompetitorsFinish(t) ==
    /\ tasks[t].kind = "competitors" /\ tasks[t].pc = "c_target"
    /\ \E res \in {"ok", "exception"} :
          LET u == tasks[t].user
          IN  IF res = "ok" /\ sessions[u] # NoSession
              THEN sessions' = [sessions EXCEPT
                       ![u].status = Some("completed"),
                       ![u].report = Some([by |-> "competitors", created_at |-> clock])]
              ELSE sessions' = Deleted(sessions, u)
    /\ EndTask(t)
    /\ UNCHANGED <<clock, rendered>>
    /\ OtherVarsUnchanged

\* /text_analysis <link> up to its first await: no session is read or written.
TextStart(t, u) ==
    /\ tasks[t] = IdleTask
    /\ SetTask(t, "text", u, "t_run")
    /\ UNCHANGED <<clock, sessions, rendered>>
    /\ OtherVarsUnchanged

\* cmd_text_analysis at its end: the user's session is replaced by the text
\* analysis data; a failure on the way leaves user_sessions alone.
TextFinish(t) ==
    /\ tasks[t].kind = "text" /\ tasks[t].pc = "t_run"
    /\ \E res \in {"ok", "failed"} :
          sessions' = IF res = "ok"
                      THEN [sessions EXCEPT ![tasks[t].user] = TextSession(clock)]
                      ELSE sessions
    /\ EndTask(t)
    /\ UNCHANGED <<clock, rendered>>
    /\ OtherVarsUnchanged

\* time.time() - data.get('created_at', 0) > 3600
Stale(created, t) == t - created > ReportTimeout

\* What a callback has rendered when it shows data created at the given time.
Rendering(created, t) == IF Stale(created, t) THEN "stale" ELSE "fresh"

\* handle_report_callback (report_* buttons), and in the same way
\* top_competitors_callback and back_to_competitors: cleanup, then the report
\* data is shown unless it is missing or older than an hour, when the session
\* goes.
ReportCallback(u) ==
    /\ LET ss == CleanupOldSessions(sessions, clock)
       IN  IF ss[u] = NoSession \/ ss[u].report = Absent
           THEN sessions' = ss /\ rendered' = "none"
           ELSE IF Stale(ss[u].report[1].created_at, clock)
           THEN sessions' = Deleted(ss, u) /\ rendered' = "none"
           ELSE sessions' = ss /\ rendered' = "fresh"
    /\ UNCHANGED <<clock, tasks>>
    /\ OtherVarsUnchanged

\* back_to_report: if the session holds report data, the report is sent again
\* from it by send_comprehensive_report, which stores the data anew with the
\* present time. Report data of /competitors has no 'analysis': KeyError, and
\* nothing is shown.
BackToReport(u) ==
    /\ IF sessions[u] # NoSession /\ sessions[u].report # Absent
          /\ sessions[u].report[1].by = "analyze"
       THEN /\ rendered' = Rendering(sessions[u].report[1].created_at, clock)
            /\ sessions' = [sessions EXCEPT
                    ![u].report = Some([by |-> "analyze", created_at |-> clock])]
       ELSE /\ rendered' = "none"
            /\ UNCHANGED sessions
    /\ UNCHANGED <<clock, tasks>>
    /\ OtherVarsUnchanged

\* text_sentiment_callback and back_to_text_analysis: cleanup, then the text
\* analysis data is shown unless it is missing or older than an hour.
TextCallback(u) ==
    /\ LET ss == CleanupOldSessions(sessions, clock)
       IN  IF ss[u] = NoSession \/ ss[u].text = Absent
           THEN sessions' = ss /\ rendered' = "none"
           ELSE IF Stale(ss[u].text[1], clock)
           THEN sessions' = Deleted(ss, u) /\ rendered' = "none"
           ELSE sessions' = ss /\ rendered' = "fresh"
    /\ UNCHANGED <<clock, tasks>>
    /\ OtherVarsUnchanged

-----------------------------------------------------------------------------
(* AudienceAnalyzer (analytics.py). Percentages are kept in tenths: 33.3 is  *)
(* 333. A str is a sequence of characters, a city title a plain string.      *)

\* self.age_groups, in the order of the dict
AgeGroups ==
    <<[name |-> "12-17", min |-> 12, max |-> 17],
      [name |-> "18-24", min |-> 18, max |-> 24],
      [name |-> "25-34", min |-> 25, max |-> 34],
      [name |-> "35-44", min |-> 35, max |-> 44],
      [name |-> "45+",   min |-> 45, max |-> 120]>>

AgeGroupNames == {AgeGroups[i].name : i \in 1..Len(AgeGroups)}

\* extract_age: return age if 12 <= age <= 120 else None
MinAge == 12
MaxAge == 120

\* most_common(10), most_common(20), recommendations[:5], keys()[:3]
TopCities == 10
TopInterests == 20
MaxRecommendations == 5
NamedInterests == 3

\* s.split(sep)
RECURSIVE Split(_, _)
SplitAt(s, sep, i) ==
    IF i = 0 THEN <<s>> ELSE <<SubSeq(s, 1, i - 1)>> \o Split(Drop(s, i), sep)
Split(s, sep) == SplitAt(s, sep, FirstIn(s, {sep}))

\* str.lower(), on ASCII letters
UpperLetters ==
    <<"A", "B", "C", "D", "E", "F", "G", "H", "I", "J", "K", "L", "M", "N", "O", "P", "Q", "R", "S", "T", "U", "V", "W", "X", "Y", "Z">>
LowerLetters ==
    <<"a", "b", "c", "d", "e", "f", "g", "h", "i", "j", "k", "l", "m", "n", "o", "p", "q", "r", "s", "t", "u", "v", "w", "x", "y", "z">>
LowerChar(c) ==
    IF \E i \in 1..Len(UpperLetters) : UpperLetters[i] = c
    THEN LowerLetters[CHOOSE i \in 1..Len(UpperLetters) : UpperLetters[i] = c]
    ELSE c
Lower(s) == [i \in 1..Len(s) |-> LowerChar(s[i])]

\* The age on the date of someone born on day.month.year.
AgeOn(day, month, year, date) ==
    IF date.month < month \/ (date.month = month /\ date.day < day)
    THEN date.year - year - 1 ELSE date.year - year

\* return age if 12 <= age <= 120 else None
AgeIfAllowed(years) == IF MinAge <= years /\ years <= MaxAge THEN Some(years) ELSE Absent

\* The three int() results: a ValueError of any gives None, and so does
\* "if year" for the year 0.
AgeFromNumbers(day, month, year, date) ==
    IF day = Absent \/ month = Absent \/ year = Absent THEN Absent
    ELSE IF year[1] = 0 THEN Absent
    ELSE AgeIfAllowed(AgeOn(day[1], month[1], year[1], date))

\* Fewer than two parts: nothing is read. Two parts, or more than three: the
\* year is None (or int() of a part raised), and the result is None.
AgeFromParts(parts, date) ==
    IF Len(parts) # 3 THEN Absent
    ELSE AgeFromNumbers(IntOf(parts[1]), IntOf(parts[2]), IntOf(parts[3]), date)

\* AudienceAnalyzer.extract_age, with datetime.now() given as date
extract_age(bdate, date) ==
    IF Len(bdate) = 0 THEN Absent ELSE AgeFromParts(Split(bdate, "."), date)

\* The fields categorize_interests reads, in its order.
InterestFields == <<"interests", "activities", "books", "music", "movies", "games">>

\* [interest.strip().lower() for interest in value.split(',') if interest.strip()]
KeepItem(item, rest) == IF Len(item) = 0 THEN rest ELSE <<Lower(item)>> \o rest

RECURSIVE CleanItems(_)
CleanItems(items) ==
    IF items = <<>> THEN <<>>
    ELSE KeepItem(Strip(Head(items), Whitespace), CleanItems(Tail(items)))

\* The items of one field: "if value and isinstance(value, str)".
FieldItems(value) ==
    IF value = Absent \/ Len(value[1]) = 0 THEN <<>> ELSE CleanItems(Split(value[1], ","))

RECURSIVE AllItems(_, _)
AllItems(user, k) ==
    IF k > Len(InterestFields) THEN <<>>
    ELSE FieldItems(user.texts[InterestFields[k]]) \o AllItems(user, k + 1)

AddNew(list, x) ==
    IF \E i \in 1..Len(list) : list[i] = x THEN list ELSE Append(list, x)

\* The distinct elements of a list, in the order of their first occurrence.
RECURSIVE Dedupe(_)
Dedupe(list) ==
    IF list = <<>> THEN <<>>
    ELSE AddNew(Dedupe(SubSeq(list, 1, Len(list) - 1)), list[Len(list)])

Reverse(list) == [i \in 1..Len(list) |-> list[Len(list) + 1 - i]]

\* The orders list(set(...)) is taken to give: the order of first occurrence
\* or its reverse (the order of a set of str changes from process to process).
SetOrders == {"forward", "reverse"}

ListOfSet(list, ord) == IF ord = "forward" THEN list ELSE Reverse(list)

\* AudienceAnalyzer.categorize_interests
categorize_interests(user, ord) == ListOfSet(Dedupe(AllItems(user, 1)), ord)

\* collections.Counter: keys in the order of their first count.
CounterAdd(cnt, key) ==
    IF \E i \in 1..Len(cnt) : cnt[i].key = key
    THEN LET i == CHOOSE j \in 1..Len(cnt) : cnt[j].key = key
         IN  [cnt EXCEPT ![i].n = @ + 1]
    ELSE Append(cnt, [key |-> key, n |-> 1])

RECURSIVE CounterAddAll(_, _)
CounterAddAll(cnt, keys) ==
    IF keys = <<>> THEN cnt ELSE CounterAddAll(CounterAdd(cnt, Head(keys)), Tail(keys))

\* The first n keys of the counter, whatever their counts
FirstCounted(cnt, n) == SubSeq(cnt, 1, Min(n, Len(cnt)))

\* The entry most_common takes first: the highest count, the earliest of
\* equal counts.
TopIndex(cnt) ==
    CHOOSE j \in 1..Len(cnt) :
        /\ \A k \in 1..Len(cnt) : cnt[k].n <= cnt[j].n
        /\ \A k \in 1..(j - 1) : cnt[k].n < cnt[j].n

Without(cnt, i) == SubSeq(cnt, 1, i - 1) \o SubSeq(cnt, i + 1, Len(cnt))

\* Counter.most_common(n): by count, highest first, equal counts in the
\* order of the counter.
RECURSIVE MostCommon(_, _)
TakeTop(cnt, i, n) == <<cnt[i]>> \o MostCommon(Without(cnt, i), n - 1)
MostCommon(cnt, n) ==
    IF n <= 0 \/ cnt = <<>> THEN <<>> ELSE TakeTop(cnt, TopIndex(cnt), n)

\* count / total * 100 cut to one decimal instead of rounded
PercentCut(part, total) == (1000 * part) \div total

\* round(count / total * 100, 1), in tenths: to the nearest tenth, a tie
\* to the even one (a tie needs a total that is a multiple of 16).
Percent(part, total) ==
    LET q == (1000 * part) \div total
        r == (1000 * part) % total
    IN  IF 2 * r < total THEN q
        ELSE IF 2 * r > total THEN q + 1
        ELSE IF q % 2 = 0 THEN q ELSE q + 1

EmptyProfile == [empty |-> TRUE]

\* The analysis dict before the loop.
NewAnalysis(total) ==
    [total_members |-> total,
     gender |-> [male |-> 0, female |-> 0, unknown |-> 0],
     age_groups |-> [g \in AgeGroupNames |-> 0],
     cities |-> <<>>,
     interests |-> <<>>,
     recommendations |-> <<>>]

\* if sex == 2 ... elif sex == 1 ... else
GenderOf(member) ==
    LET sex == Get(member.sex, 0)
    IN  IF sex = 2 THEN "male" ELSE IF sex = 1 THEN "female" ELSE "unknown"

\* The first age group, in the order of the dict, that holds the age.
AgeGroupOf(age) ==
    IF \E i \in 1..Len(AgeGroups) : AgeGroups[i].min <= age /\ age <= AgeGroups[i].max
    THEN LET i == CHOOSE j \in 1..Len(AgeGroups) :
                      /\ AgeGroups[j].min <= age /\ age <= AgeGroups[j].max
                      /\ \A k \in 1..(j - 1) : ~(AgeGroups[k].min <= age /\ age <= AgeGroups[k].max)
         IN  Some(AgeGroups[i].name)
    ELSE Absent

\* member.get('city', {}).get('title')
CityOf(member) == IF member.city = Absent THEN Absent ELSE member.city[1].title

\* "if age:" and the loop over the age groups.
BracketOf(years) ==
    IF years = Absent \/ years[1] = 0 THEN Absent ELSE AgeGroupOf(years[1])

\* The four updates one member makes.
Count(analysis, gender, group, city, interests) ==
    [analysis EXCEPT
        !.gender[gender] = @ + 1,
        !.age_groups = IF group = Absent THEN @ ELSE [@ EXCEPT ![group[1]] = @ + 1],
        !.cities = IF city = Absent \/ city[1] = "" THEN @ ELSE CounterAdd(@, city[1]),
        !.interests = CounterAddAll(@, interests)]

\* The body of the loop over the members.
CountMember(analysis, member, date, ord) ==
    Count(analysis, GenderOf(member),
          BracketOf(extract_age(Get(member.bdate, <<>>), date)),
          CityOf(member), categorize_interests(member, ord))

RECURSIVE CountMembers(_, _, _, _)
CountMembers(analysis, members_, date, ord) ==
    IF members_ = <<>> THEN analysis
    ELSE CountMembers(CountMember(analysis, Head(members_), date, ord), Tail(members_), date, ord)

\* The members whose age is known, as the denominator of the age percentages
KnownAges(counted) ==
    LET known == counted.age_groups["12-17"] + counted.age_groups["18-24"]
                    + counted.age_groups["25-34"] + counted.age_groups["35-44"]
                    + counted.age_groups["45+"]
    IN  IF known = 0 THEN counted.total_members ELSE known

\* The denominator of the age percentages.
AgeDenominator(counted) == counted.total_members

\* What the counter of interests becomes in the profile.
InterestValue(part, total) == part

\* {city: round(count / total * 100, 1) for city, count in top_cities.items()}
CityShares(top, total) ==
    [i \in 1..Len(top) |-> [key |-> top[i].key, value |-> Percent(top[i].n, total)]]

InterestValues(top, total) ==
    [i \in 1..Len(top) |-> [key |-> top[i].key, value |-> InterestValue(top[i].n, total)]]

\* "if total > 0": counts become percentages, the counters their top entries.
Finish(counted) ==
    [counted EXCEPT
        !.gender = [k \in DOMAIN @ |-> Percent(@[k], counted.total_members)],
        !.age_groups = [g \in DOMAIN @ |-> Percent(@[g], AgeDenominator(counted))],
        !.cities = CityShares(MostCommon(@, TopCities), counted.total_members),
        !.interests = InterestValues(MostCommon(@, TopInterests), counted.total_members)]

\* max(analysis['age_groups'].items(), key=lambda x: x[1]): the first of the
\* largest, in the order of the dict.
MainAgeGroup(age_groups) ==
    LET i == CHOOSE j \in 1..Len(AgeGroups) :
                 /\ \A k \in 1..Len(AgeGroups) :
                        age_groups[AgeGroups[k].name] <= age_groups[AgeGroups[j].name]
                 /\ \A k \in 1..(j - 1) :
                        age_groups[AgeGroups[k].name] < age_groups[AgeGroups[j].name]
    IN  AgeGroups[i].name

Keys(entries) == {entries[i].key : i \in 1..Len(entries)}
KeyList(entries) == [i \in 1..Len(entries) |-> entries[i].key]
Prefix(list, n) == SubSeq(list, 1, Min(n, Len(list)))

\* The last city of the profile taken for the city rule
RuleCityLast(cities) == cities[Len(cities)]

\* The city the city rule looks at: list(analysis['cities'].keys())[0]
RuleCity(cities) == cities[1]

\* if main_age_group[1] > 40
AgeRule(age_groups, main) ==
    IF age_groups[main] > 400 THEN <<[rule |-> "age", names |-> main]>> ELSE <<>>

\* AudienceAnalyzer._generate_recommendations; a recommendation is kept as
\* the rule that made it and what its text names.
generate_recommendations(analysis) ==
    LET byGender ==
            IF analysis.gender.male > 700 THEN <<[rule |-> "male"]>>
            ELSE IF analysis.gender.female > 700 THEN <<[rule |-> "female"]>>
            ELSE <<>>
        byAge == AgeRule(analysis.age_groups, MainAgeGroup(analysis.age_groups))
        byCity == IF analysis.cities # <<>> /\ RuleCity(analysis.cities).value > 300
                  THEN <<[rule |-> "city", names |-> RuleCity(analysis.cities).key]>>
                  ELSE <<>>
        byInterests ==
            IF analysis.interests # <<>>
            THEN <<[rule |-> "interests",
                    names |-> Prefix(KeyList(analysis.interests), NamedInterests)]>>
            ELSE <<>>
    IN  Prefix(byGender \o byAge \o byCity \o byInterests, MaxRecommendations)

\* What analyze_audience returns for no members.
OnNoMembers == EmptyProfile

WithRecommendations(done) ==
    [done EXCEPT !.recommendations = generate_recommendations(done)]

\* AudienceAnalyzer.analyze_audience
analyze_audience(members_, date, ord) ==
    IF members_ = <<>> THEN OnNoMembers
    ELSE WithRecommendations(
             Finish(CountMembers(NewAnalysis(Len(members_)), members_, date, ord)))

\* The keys of the dict analyze_audience returns.
ProfileKeys(p) == IF p = EmptyProfile THEN {} ELSE DOMAIN p

\* send_quality_report: analysis.get('audience_quality_score', 0)
QualityShown(p) ==
    IF "audience_quality_score" \in ProfileKeys(p) THEN p.audience_quality_score ELSE 0

Abs(x) == IF x < 0 THEN 0 - x ELSE x

\* The four checks of compare_audiences.
GenderClose(a1, a2) == Abs(a1.gender.male - a2.gender.male) < 100
AgeClose(a1, a2) ==
    Cardinality({g \in AgeGroupNames : Abs(a1.age_groups[g] - a2.age_groups[g]) < 50}) >= 3
CommonCities(a1, a2) == Keys(a1.cities) \cap Keys(a2.cities)
CitiesShared(a1, a2) == Cardinality(CommonCities(a1, a2)) >= 2
\* Three common interests taken as enough
InterestsSharedFromThree(a1, a2) ==
    Cardinality(Keys(a1.interests) \cap Keys(a2.interests)) >= 3

CommonInterests(a1, a2) == Keys(a1.interests) \cap Keys(a2.interests)
InterestsShared(a1, a2) == Cardinality(CommonInterests(a1, a2)) >= 5

\* The points one satisfied check adds.
CheckPoints == 25

\* AudienceAnalyzer.compare_audiences; the entry for the cities names up to
\* three of the common cities.
compare_audiences(a1, a2) ==
    LET s1 == IF GenderClose(a1, a2) THEN CheckPoints ELSE 0
        c1 == IF GenderClose(a1, a2) THEN <<[check |-> "gender"]>> ELSE <<>>
        s2 == IF AgeClose(a1, a2) THEN s1 + CheckPoints ELSE s1
        c2 == IF AgeClose(a1, a2) THEN Append(c1, [check |-> "age"]) ELSE c1
        s3 == IF CitiesShared(a1, a2) THEN s2 + CheckPoints ELSE s2
        c3 == IF CitiesShared(a1, a2)
              THEN Append(c2, [check |-> "cities", among |-> CommonCities(a1, a2)])
              ELSE c2
        s4 == IF InterestsShared(a1, a2) THEN s3 + CheckPoints ELSE s3
        c4 == IF InterestsShared(a1, a2) THEN Append(c3, [check |-> "interests"]) ELSE c3
    IN  [similarity_score |-> Min(s4, 100), common_characteristics |-> c4]

-----------------------------------------------------------------------------
(* Inputs of the analyzer *)

NoTexts == [f \in {InterestFields[i] : i \in 1..Len(InterestFields)} |-> Absent]
City(title) == Some([title |-> Some(title)])

\* Birth dates as the API gives them, and some it should not give.
Bdates ==
    {<<>>, <<"1", "5", ".", "6", ".", "1", "9", "9", "0">>, <<"1", "5", ".", "6">>, <<"1", ".", "1", "2", ".", "2", "0", "1", "4">>, <<"1", ".", "1", ".", "2", "0", "2", "0">>, <<"1", ".", "1", ".", "1", "9", "0", "0">>, <<"x", ".", "6", ".", "1", "9", "9", "0">>, <<"1", "5", ".", "6", ".", "1", "9", "9", "0", ".", "1">>, <<"1", "5", ".", "6", ".", "0">>,
     <<"3", "1", ".", "1", "2", ".", "2", "0", "0", "0">>, <<"1", "9", "9", "0">>, <<" ", "1", ".", " ", "1", ".", "2", "0", "0", "8">>}

JustBorn(bdate) ==
    [sex |-> Absent, bdate |-> Some(bdate), city |-> Absent, texts |-> NoTexts]

\* The kinds of member the general lists are made of.
MemberKinds ==
    {[sex |-> Some(2), bdate |-> Some(<<"1", "5", ".", "6", ".", "1", "9", "9", "0">>), city |-> City("Moscow"),
      texts |-> [NoTexts EXCEPT !["interests"] = Some(<<"M", "u", "s", "i", "c", ",", " ", "m", "u", "s", "i", "c", " ", ",", "M", "U", "S", "I", "C">>),
                                !["music"] = Some(<<"r", "o", "c", "k", ",", "m", "u", "s", "i", "c">>)]],
     [sex |-> Some(1), bdate |-> Some(<<"1", "5", ".", "6">>), city |-> City("moscow"),
      texts |-> [NoTexts EXCEPT !["books"] = Some(<<"a", ",", "b", ",", "m", ",", "r", ",", "x">>)]],
     [sex |-> Absent, bdate |-> Absent, city |-> Absent, texts |-> NoTexts],
     [sex |-> Some(2), bdate |-> Some(<<"1", ".", "1", "2", ".", "2", "0", "1", "4">>), city |-> Some([title |-> Absent]),
      texts |-> [NoTexts EXCEPT !["interests"] = Some(<<>>)]],
     [sex |-> Some(3), bdate |-> Some(<<"x", ".", "6", ".", "1", "9", "9", "0">>), city |-> City(""),
      texts |-> [NoTexts EXCEPT !["games"] = Some(<<" ", ",", " ", ",">>)]],
     [sex |-> Some(1), bdate |-> Some(<<"1", ".", "1", ".", "1", "9", "0", "0">>), city |-> City("Kazan"),
      texts |-> [NoTexts EXCEPT !["movies"] = Some(<<"R", "o", "c", "k">>)]],
     [sex |-> Some(2), bdate |-> Some(<<"3", "1", ".", "1", "2", ".", "2", "0", "0", "0">>), city |-> City("Kazan"),
      texts |-> [NoTexts EXCEPT !["activities"] = Some(<<"A", ",", "B", ",", "M", ",", "R", ",", "X", ",", "r", "o", "c", "k">>)]]}

\* The longest of the general lists.
MaxMembers == 3

RECURSIVE ListsUpTo(_)
ListsUpTo(n) ==
    IF n = 0 THEN {<<>>}
    ELSE ListsUpTo(n - 1)
            \cup {Append(l, m) : l \in {x \in ListsUpTo(n - 1) : Len(x) = n - 1},
                                 m \in MemberKinds}

CrowdCities == <<"c1", "c2", "c3", "c4", "c5", "c6", "c7", "c8", "c9", "c10", "c11">>

\* The city of member i of a crowd: the first eleven members live in eleven
\* cities, the later ones in the same cities taken from the last.
CrowdCity(i) ==
    IF i <= Len(CrowdCities) THEN CrowdCities[i]
    ELSE CrowdCities[Len(CrowdCities) - ((i - Len(CrowdCities) - 1) % Len(CrowdCities))]

\* A list of k members, the first of them listing 21 interests.
Crowd(k) ==
    [i \in 1..k |->
        [sex |-> Some(i % 3), bdate |-> Some(<<"3", "1", ".", "1", "2", ".", "2", "0", "0", "0">>),
         city |-> City(CrowdCity(i)),
         texts |-> IF i = 1 THEN [NoTexts EXCEPT !["interests"] = Some(<<"a", ",", "b", ",", "c", ",", "d", ",", "e", ",", "f", ",", "g", ",", "h", ",", "i", ",", "j", ",", "k", ",", "l", ",", "m", ",", "n", ",", "o", ",", "p", ",", "q", ",", "r", ",", "s", ",", "t", ",", "u">>)]
                   ELSE [NoTexts EXCEPT !["music"] = Some(<<"R", "o", "c", "k">>)]]]

CrowdSizes == {6, 7, 12, 16}

AnalysisLists ==
    ListsUpTo(MaxMembers)
        \cup {<<JustBorn(b)>> : b \in Bdates}
        \cup {Crowd(k) : k \in CrowdSizes}

\* The lists whose profile a profile is compared with.
CompareLists ==
    {Crowd(7), Crowd(12)} \cup {l \in ListsUpTo(MaxMembers) : Len(l) = 1}

Dates == {[year |-> 2026, month |-> 11, day |-> 1], [year |-> 2026, month |-> 12, day |-> 31]}

\* analyzer.analyze_audience(members)
Analyze ==
    /\ apc = "ready"
    /\ \E ord \in SetOrders :
          /\ setOrder' = ord
          /\ profile' = analyze_audience(aMembers, today, ord)
    /\ apc' = "analyzed"
    /\ UNCHANGED <<today, aMembers, profile2, comparison>>
    /\ UNCHANGED <<resolverVars, runVars, harvestVars, gateVars, sessionVars, storeVars>>

\* The profiles of those lists, for each date and each order of the sets.
CompareProfiles ==
    [d \in Dates, ord \in SetOrders |-> {analyze_audience(l, d, ord) : l \in CompareLists}]

\* analyzer.compare_audiences(analysis1, analysis2), as cmd_compare calls it:
\* with two profiles of non-empty lists, here also a profile with itself.
Compare ==
    /\ apc = "analyzed"
    /\ profile # EmptyProfile
    /\ \E other \in CompareProfiles[today, setOrder] \cup {profile} :
          /\ profile2' = other
          /\ comparison' = compare_audiences(profile, other)
    /\ apc' = "compared"
    /\ UNCHANGED <<today, aMembers, setOrder, profile>>
    /\ UNCHANGED <<resolverVars, runVars, harvestVars, gateVars, sessionVars, storeVars>>

\* The keys of the comparison that the report of cmd_compare reads.
ComparisonKeysRead ==
    {"similarity_score", "common_characteristics",
     "audience1_quality", "audience2_quality", "quality_difference"}

\* The rest of cmd_compare after compare_audiences: the report is built by
\* reading the keys of the comparison; a key that is not there raises
\* KeyError, which "except Exception" answers with the error message.
CompareReply(c) ==
    IF ComparisonKeysRead \subseteq DOMAIN c THEN "comparison_report" ELSE "compare_error"

CompareReport ==
    /\ apc = "compared"
    /\ apc' = CompareReply(comparison)
    /\ UNCHANGED <<today, aMembers, setOrder, profile, profile2, comparison>>
    /\ UNCHANGED <<resolverVars, runVars, harvestVars, gateVars, sessionVars, storeVars>>

-----------------------------------------------------------------------------
(* Database.save_analysis (database.py): one transaction that adds a row to  *)
(* analyses and counts it in the caller's row of user_stats.                 *)

\* Calls of save_analysis in one behaviour.
MaxSaves == 3

\* What the database does with the statements and the commit of the call.
DbOutcomes == {"ok", "integrity_error", "error"}

\* total_analyses values of rows the database may hold when the bot starts.
StoredTotals == {0, 2}

\* stats.total_analyses of the object the call holds is None: session.get
\* found no row and the object is a new UserStats(user_id=user_id), whose
\* total_analyses is not set (Column(default=0) applies when the row is
\* inserted, not when the object is made).
TotalIsNone(row) == row = Absent

\* The exception the body of save_analysis raises, "none" when it commits:
\* TypeError from "stats.total_analyses += 1" on None, else what the database
\* raised.
SaveRaises(row, db) ==
    IF TotalIsNone(row) THEN "TypeError" ELSE IF db = "ok" THEN "none" ELSE db

\* Database.save_analysis(user_id, group_id, ...): what it returns and the
\* tables after it. An exception leaves the session without a commit, so
\* nothing of the transaction is stored.
save_analysis(user_id, group_id, db) ==
    IF SaveRaises(stats[user_id], db) = "none"
    THEN [returned |-> TRUE,
          analyses |-> Append(analyses, [user_id |-> user_id, group_id |-> group_id]),
          stats |-> [stats EXCEPT ![user_id] = Some(stats[user_id][1] + 1)]]
    ELSE [returned |-> FALSE, analyses |-> analyses, stats |-> stats]

SaveAnalysis ==
    /\ saves < MaxSaves
    /\ \E u \in Users, db \in DbOutcomes :
          LET r == save_analysis(u, StrOfInt(7), db)
          IN  /\ analyses' = r.analyses
              /\ stats' = r.stats
              /\ saveLast' = [user |-> u, db |-> db, returned |-> r.returned]
    /\ saves' = saves + 1
    /\ UNCHANGED <<resolverVars, runVars, harvestVars, gateVars, sessionVars, analyticsVars>>

-----------------------------------------------------------------------------
(* Specifications *)

ResolverIdle == rLink = <<>> /\ rDone = FALSE /\ rOut = Absent

RunIdle ==
    /\ pc = "idle" /\ link = <<>> /\ groupId = Absent /\ groupInfo = NoneV
    /\ reqLog = <<>> /\ firstHit = NoneV /\ lastHit = NoneV /\ resolved = NoneV
    /\ lastOutcome = [kind |-> "none"] /\ lastReturn = Return(NoneV)
    /\ raised = {} /\ outcome = "none" /\ savedGroup = Absent /\ command = "analyze"

HarvestIdle ==
    /\ harvestGroup = Absent /\ limit = 0 /\ count = 0 /\ offset = 0 /\ members = <<>> /\ received = <<>>
    /\ pageLog = <<>> /\ lastPage = "none" /\ result = <<>>

GateIdle ==
    /\ now = 0
    /\ gpc = [p \in Callers |-> "idle"]
    /\ wake = [p \in Callers |-> 0]
    /\ started = [p \in Callers |-> 0]
    /\ calls = [p \in Callers |-> 0]
    /\ posts = <<>>
    /\ gLast = [caller |-> "none", outcome |-> "none"]

SessionsIdle ==
    /\ clock = StartTime
    /\ sessions = [u \in Users |-> NoSession]
    /\ tasks = [t \in TaskIds |-> IdleTask]
    /\ rendered = "none"

AnalyticsIdle ==
    /\ today = [year |-> 2026, month |-> 11, day |-> 1]
    /\ aMembers = <<>> /\ setOrder = "forward" /\ apc = "ready"
    /\ profile = EmptyProfile /\ profile2 = EmptyProfile
    /\ comparison = [similarity_score |-> 0, common_characteristics |-> <<>>]

NoSave == [user |-> "none", db |-> "none", returned |-> FALSE]

StoreIdle ==
    /\ analyses = <<>> /\ stats = [u \in Users |-> Absent]
    /\ saves = 0 /\ saveLast = NoSave

\* One /analyze run: resolution, the checks of cmd_analyze, the harvest.
Init ==
    /\ ResolverIdle /\ RunIdle /\ HarvestIdle /\ GateIdle /\ SessionsIdle /\ AnalyticsIdle
    /\ StoreIdle

Next ==
    \/ StartAnalyze
    \/ ResolveV1
    \/ ResolveV2
    \/ ResolveV3
    \/ ResolveV3Detail
    \/ HarvestPage
    \/ AnalyzeAfterHarvest

Spec == Init /\ [][Next]_vars

\* get_group_members called on its own, with any limit.
HarvestLimits == {-1, 0, 1, 50, 1000, 1001, 2500}

InitHarvest ==
    /\ ResolverIdle /\ GateIdle /\ SessionsIdle /\ AnalyticsIdle /\ StoreIdle
    /\ link = <<>> /\ groupId = Absent /\ groupInfo = NoneV
    /\ reqLog = <<>> /\ firstHit = NoneV /\ lastHit = NoneV /\ resolved = NoneV
    /\ lastOutcome = [kind |-> "none"] /\ lastReturn = Return(NoneV)
    /\ raised = {} /\ outcome = "none" /\ savedGroup = Absent /\ command = "none"
    /\ harvestGroup = Some(7)
    /\ limit \in HarvestLimits
    /\ count = PageSize(limit)
    /\ offset = 0 /\ members = <<>> /\ received = <<>>
    /\ pageLog = <<>> /\ lastPage = "none" /\ result = <<>>
    /\ pc = IF LoopContinues(<<>>, limit) THEN "harvest" ELSE "returned"

NextHarvest == HarvestPage

SpecHarvest == InitHarvest /\ [][NextHarvest]_vars

\* One run of any command that harvests the members of the group of its
\* link, up to the return of get_group_members.
InitCommands ==
    /\ ResolverIdle /\ HarvestIdle /\ GateIdle /\ SessionsIdle /\ AnalyticsIdle /\ StoreIdle
    /\ pc = "idle" /\ link = <<>> /\ groupId = Absent /\ groupInfo = NoneV
    /\ reqLog = <<>> /\ firstHit = NoneV /\ lastHit = NoneV /\ resolved = NoneV
    /\ lastOutcome = [kind |-> "none"] /\ lastReturn = Return(NoneV)
    /\ raised = {} /\ outcome = "none" /\ savedGroup = Absent
    /\ command \in Commands

NextCommands ==
    \/ StartAnalyze
    \/ ResolveV1
    \/ ResolveV2
    \/ ResolveV3
    \/ ResolveV3Detail
    \/ TextContent
    \/ HarvestPage

SpecCommands == InitCommands /\ [][NextCommands]_vars

\* The same, with every request answered or given up in the end (the session
\* of make_request carries a total timeout).
SpecHarvestLive == SpecHarvest /\ WF_vars(NextHarvest)

\* Calls of save_analysis against a database that holds a stats row for
\* some users and none for others.
InitStore ==
    /\ ResolverIdle /\ RunIdle /\ HarvestIdle /\ GateIdle /\ SessionsIdle /\ AnalyticsIdle
    /\ analyses = <<>>
    /\ stats \in [Users -> {Absent} \cup {Some(n) : n \in StoredTotals}]
    /\ saves = 0 /\ saveLast = NoSave

NextStore == SaveAnalysis

SpecStore == InitStore /\ [][NextStore]_vars

\* extract_group_id applied to each input.
InitResolver ==
    /\ rLink \in Links /\ rDone = FALSE /\ rOut = Absent
    /\ RunIdle /\ HarvestIdle /\ GateIdle /\ SessionsIdle /\ AnalyticsIdle /\ StoreIdle

NextResolver == Resolve

SpecResolver == InitResolver /\ [][NextResolver]_vars

\* Concurrent callers of make_request.
InitGate ==
    ResolverIdle /\ RunIdle /\ HarvestIdle /\ GateIdle /\ SessionsIdle /\ AnalyticsIdle /\ StoreIdle

NextGate ==
    \/ Tick
    \/ \E p \in Callers : GateCall(p)
    \/ \E p \in Callers : GateSleepEnds(p)
    \/ \E p \in Callers : GateResponse(p)

SpecGate == InitGate /\ [][NextGate]_vars

\* The commands and callbacks of all users, interleaved at their awaits.
InitSessions ==
    ResolverIdle /\ RunIdle /\ HarvestIdle /\ GateIdle /\ SessionsIdle /\ AnalyticsIdle /\ StoreIdle

NextSessions ==
    \/ PassTime
    \/ \E t \in TaskIds, u \in Users : AnalyzeStart(t, u)
    \/ \E t \in TaskIds : AnalyzeInfo(t)
    \/ \E t \in TaskIds : AnalyzeMembers(t)
    \/ \E t \in TaskIds : AnalyzeAnalysis(t)
    \/ \E t \in TaskIds : AnalyzeSave(t)
    \/ \E t \in TaskIds : AnalyzeReport(t)
    \/ \E t \in TaskIds, u \in Users : CompetitorsStart(t, u)
    \/ \E t \in TaskIds : CompetitorsInfo(t)
    \/ \E t \in TaskIds : CompetitorsFound(t)
    \/ \E t \in TaskIds : CompetitorsAnalyzed(t)
    \/ \E t \in TaskIds : CompetitorsFinish(t)
    \/ \E t \in TaskIds, u \in Users : TextStart(t, u)
    \/ \E t \in TaskIds : TextFinish(t)
    \/ \E u \in Users : ReportCallback(u)
    \/ \E u \in Users : BackToReport(u)
    \/ \E u \in Users : TextCallback(u)

SpecSessions == InitSessions /\ [][NextSessions]_vars

\* analyze_audience applied to each list on each date, then compare_audiences.
InitAnalytics ==
    /\ ResolverIdle /\ RunIdle /\ HarvestIdle /\ GateIdle /\ SessionsIdle /\ StoreIdle
    /\ today \in Dates
    /\ aMembers \in AnalysisLists
    /\ setOrder = "forward" /\ apc = "ready"
    /\ profile = EmptyProfile /\ profile2 = EmptyProfile
    /\ comparison = [similarity_score |-> 0, common_characteristics |-> <<>>]

NextAnalytics ==
    \/ Analyze
    \/ Compare
    \/ CompareReport

SpecAnalytics == InitAnalytics /\ [][NextAnalytics]_vars

-----------------------------------------------------------------------------
(* Claims *)

ResolutionOver == pc \in {"harvest", "returned", "done"}

\* C1: in cmd_analyze a resolved group that is closed (is_closed != 0) or
\* reports no members ends the run with group_closed, respectively group_empty
\* (closed is checked first), and no groups.getMembers request is issued.
C1_ClosedOrEmptyNoMemberFetch ==
    (ResolutionOver /\ groupInfo # NoneV
        /\ (groupInfo.is_closed[1] # 0 \/ groupInfo.members_count[1] = 0))
    => /\ pc = "done"
       /\ outcome = IF groupInfo.is_closed[1] # 0 THEN "group_closed" ELSE "group_empty"
       /\ pageLog = <<>>

C1_Witness ==
    /\ pc = "done" /\ outcome = "group_closed" /\ groupInfo # NoneV
    /\ groupInfo.is_closed = <<2>> /\ groupInfo.members_count = <<5000>>
    /\ pageLog = <<>>

\* C2: for every limit asked of get_group_members and every sequence of
\* pages, the list it returns holds no more than min(limit, 1000) records
\* (the reported member count can only lower that bound).
C2_HarvestWithinEffectiveLimit ==
    pc = "returned" => Total(result) <= Min(limit, MaxPerRequest)

\* The harvest of an /analyze run, which asks for min(1000, members_count):
\* the list never holds more than that, and with a reported count of 50 a
\* page that delivers the records asked for gives exactly 50.
AnalyzeHarvestWithinLimit ==
    (pc \in {"returned", "done"} /\ groupInfo # NoneV /\ pageLog # <<>>)
    => /\ Total(result) <= Min(Min(AnalyzeLimit, groupInfo.members_count[1]), MaxPerRequest)
       /\ (groupInfo.members_count = <<50>> /\ lastPage = "full") => Total(result) = 50

C4_SequentialCallsTakeDelay ==
    \A p \in Callers : calls[p] > 0 => now - started[p] >= calls[p] * RequestDelay

C4_Witness ==
    \E p \in Callers :
        /\ calls[p] = 2 /\ gLast = [caller |-> p, outcome |-> "network_error"]
        /\ now - started[p] = 2 * RequestDelay

\* C5: any two outbound HTTP requests of the process are at least
\* request_delay apart, also when several handlers use vk_client at once.
C5_PostsSeparated ==
    \A i, j \in 1..Len(posts) : i < j => posts[j] - posts[i] >= RequestDelay

\* C6: a user never has two /analyze runs in progress at once, whatever the
\* interleaving of that user's commands and callbacks and of session cleanup.
C6_OneAnalyzePerCaller ==
    \A u \in Users :
        Cardinality({t \in TaskIds : tasks[t].kind = "analyze" /\ tasks[t].user = u}) <= 1

\* C7: the value make_request returns for the remote invalid-token error
\* (code 5) differs from every value it returns for a transient failure.
C7_InvalidTokenDistinct ==
    (lastOutcome.kind = "remote_error" /\ lastOutcome.code = 5)
    => \A o \in FailureOutcomes :
          o.kind \in TransientKinds => lastReturn # ReturnSeen(MakeRequest(o))

\* C8: make_request, get_group_info and get_group_members never let an
\* exception reach their caller: every failure ends in a returned value.
C8_NoExceptionEscapes == raised = {}

C8_Witness ==
    /\ pc = "returned" /\ lastPage = "exception" /\ result = <<>>
    /\ Len(received) = 0 /\ raised = {}

Letters ==
    {"a", "b", "c", "d", "e", "f", "g", "h", "i", "j", "k", "l", "m", "n", "o", "p",
     "q", "r", "s", "t", "u", "v", "w", "x", "y", "z"}

IsBareAlias(s) ==
    /\ Len(s) > 0 /\ ~IsDigit(s)
    /\ \A i \in 1..Len(s) : s[i] \in Letters \cup Digits

\* C9: extract_group_id gives "123456" for "https://vk.com/public123456",
\* "durov" for "@durov" and the alias itself for any bare alphanumeric alias,
\* and None for "not a valid string!!".
C9_ResolverExamples ==
    rDone =>
        /\ (rLink = PublicUrl => rOut = Some(<<"1", "2", "3", "4", "5", "6">>))
        /\ (rLink = AtDurov => rOut = Some(Durov))
        /\ (IsBareAlias(rLink) => rOut = Some(rLink))
        /\ (rLink = NotValid => rOut = Absent)

RequestOrder == <<"v1", "v2", "v3", "v3_detail">>

InOrder ==
    /\ Len(reqLog) <= Len(RequestOrder)
    /\ \A i \in 1..Len(reqLog) : reqLog[i].req = RequestOrder[i]

\* C10 as claimed: the shapes are tried in order, no request follows a
\* response that held an id and a name, and that response's record is what
\* the resolution returns.
C10_StopsAtFirstRecord ==
    /\ InOrder
    /\ \A i, j \in 1..Len(reqLog) : i < j => ~reqLog[i].hit
    /\ (ResolutionOver /\ firstHit # NoneV) => resolved = firstHit

\* C10 as amended: as above for v1 and v2; in v3 a basic response with an id
\* and a name is followed by exactly one more request (with fields), and the
\* record returned is that second response's if it holds an id and a name,
\* the basic one otherwise.
C10_StopsAtFirstRecordExceptV3 ==
    /\ InOrder
    /\ \A i, j \in 1..Len(reqLog) :
          (i < j /\ reqLog[i].hit) => (reqLog[i].req = "v3" /\ j = i + 1)
    /\ \A i \in 1..Len(reqLog) :
          /\ (reqLog[i].req = "v3_detail" => reqLog[i - 1].hit)
          /\ (reqLog[i].req = "v3" /\ reqLog[i].hit /\ ResolutionOver) => Len(reqLog) = i + 1
    /\ ResolutionOver => resolved = lastHit

C10_Witness ==
    /\ ResolutionOver /\ Len(reqLog) = 4
    /\ reqLog[3].hit /\ reqLog[4].hit
    /\ resolved = lastHit /\ resolved # firstHit

\* The three gender percentages of a profile, added up (in tenths).
GenderSum(p) == p.gender.male + p.gender.female + p.gender.unknown

GenderNames == {"male", "female", "unknown"}

\* The members of the analysed list that have the property.
MembersWith(Has(_)) == {i \in 1..Len(aMembers) : Has(aMembers[i])}

\* C11: for every non-empty member list analyze_audience counts each member
\* in exactly one of male, female and unknown (the three counts are the
\* numbers of members of each kind and add up to the total), each percentage
\* is the count as a one-decimal share of the total, and the three
\* percentages add up to 100.0 give or take 0.1.
C11_GenderSharesSumTo100 ==
    (apc = "analyzed" /\ aMembers # <<>>) =>
        LET counted == CountMembers(NewAnalysis(Len(aMembers)), aMembers, today, setOrder)
        IN  /\ \A g \in GenderNames :
                  LET IsG(mem) == GenderOf(mem) = g
                  IN  /\ counted.gender[g] = Cardinality(MembersWith(IsG))
                      /\ 10 * profile.gender[g] * Len(aMembers) - 10000 * counted.gender[g]
                            \in (0 - 5 * Len(aMembers))..(5 * Len(aMembers))
            /\ counted.gender.male + counted.gender.female + counted.gender.unknown
                  = Len(aMembers)
            /\ GenderSum(profile) \in 999..1001

\* A list of all three kinds whose rounded percentages do not add up to 100.0.
C11_Witness ==
    /\ apc = "analyzed" /\ aMembers # <<>>
    /\ \A g \in GenderNames : profile.gender[g] > 0
    /\ GenderSum(profile) # 1000

\* The age extract_age derives for a member of the analysed list.
AgeOf(mem) == extract_age(Get(mem.bdate, <<>>), today)

\* The brackets whose range holds an age.
BracketsOf(a) ==
    {i \in 1..Len(AgeGroups) : AgeGroups[i].min <= a /\ a <= AgeGroups[i].max}

RECURSIVE BracketedUpTo(_, _)
BracketedUpTo(age_groups, k) ==
    IF k = 0 THEN 0 ELSE age_groups[AgeGroups[k].name] + BracketedUpTo(age_groups, k - 1)

\* C12: every age of 12 to 120 lies in exactly one bracket; a member is
\* counted in the one bracket of its age when extract_age derives an age, and
\* in none when it does not (no year, an age below 12 or above 120, a date
\* that cannot be read); each bracket percentage is the bracket's count as a
\* share of all members, and the bracketed members and the members without an
\* age together are all members.
C12_OneBracketPerKnownAge ==
    /\ \A a \in MinAge..MaxAge : Cardinality(BracketsOf(a)) = 1
    /\ (apc = "analyzed" /\ aMembers # <<>>) =>
          LET counted == CountMembers(NewAnalysis(Len(aMembers)), aMembers, today, setOrder)
              NoAge(mem) == AgeOf(mem) = Absent
          IN  /\ \A i \in 1..Len(AgeGroups) :
                    LET InBracket(mem) == AgeOf(mem) # Absent /\ i \in BracketsOf(AgeOf(mem)[1])
                    IN  /\ counted.age_groups[AgeGroups[i].name] = Cardinality(MembersWith(InBracket))
                        /\ profile.age_groups[AgeGroups[i].name]
                              = Percent(Cardinality(MembersWith(InBracket)), Len(aMembers))
              /\ \A j \in 1..Len(aMembers) :
                    AgeOf(aMembers[j]) # Absent => AgeOf(aMembers[j])[1] \in MinAge..MaxAge
              /\ BracketedUpTo(counted.age_groups, Len(AgeGroups))
                    + Cardinality(MembersWith(NoAge)) = Len(aMembers)

\* A list with a member of known age and a member whose birthdate has no year.
C12_Witness ==
    /\ apc = "analyzed"
    /\ \E i, j \in 1..Len(aMembers) :
          /\ AgeOf(aMembers[i]) # Absent
          /\ aMembers[j].bdate # Absent /\ Len(Split(aMembers[j].bdate[1], ".")) = 2
    /\ \E g \in AgeGroupNames : profile.age_groups[g] \in 1..999

\* C13: a profile of a non-empty member list compared with itself gives
\* similarity_score 100 and exactly 4 common_characteristics.
C13_SelfComparisonIsFull ==
    (apc = "compared" /\ profile2 = profile) =>
        /\ comparison.similarity_score = 100
        /\ Len(comparison.common_characteristics) = 4

\* The checks of a comparison that hold between the two profiles compared,
\* written out from the thresholds (percentages in tenths).
SatisfiedChecks ==
    LET maleDelta == Abs(profile.gender.male - profile2.gender.male)
        near == {g \in AgeGroupNames :
                    Abs(profile.age_groups[g] - profile2.age_groups[g]) < 50}
        cities == {c \in Keys(profile.cities) : c \in Keys(profile2.cities)}
        interests == {c \in Keys(profile.interests) : c \in Keys(profile2.interests)}
    IN  (IF maleDelta < 100 THEN {"gender"} ELSE {})
            \cup (IF Cardinality(near) >= 3 THEN {"age"} ELSE {})
            \cup (IF Cardinality(cities) >= 2 THEN {"cities"} ELSE {})
            \cup (IF Cardinality(interests) >= 5 THEN {"interests"} ELSE {})

\* C14: the similarity score is 25 times the number of satisfied checks, one
\* of 0, 25, 50, 75 and 100; common_characteristics has one entry for each
\* satisfied check and no other, in the order gender, age, cities,
\* interests; with no check satisfied the score is 0.
C14_ScoreCountsChecks ==
    apc = "compared" =>
        LET entries == comparison.common_characteristics
        IN  /\ comparison.similarity_score = 25 * Cardinality(SatisfiedChecks)
            /\ comparison.similarity_score \in {0, 25, 50, 75, 100}
            /\ Len(entries) = Cardinality(SatisfiedChecks)
            /\ {entries[i].check : i \in 1..Len(entries)} = SatisfiedChecks
            /\ \A i, j \in 1..Len(entries) : (i # j) => entries[i].check # entries[j].check
            /\ (SatisfiedChecks = {}) =>
                  comparison = [similarity_score |-> 0, common_characteristics |-> <<>>]

\* Two different profiles that satisfy the gender, age and interests checks
\* and have fewer than two cities in common: 75 points, three entries.
C14_Witness ==
    /\ apc = "compared" /\ profile2 # profile
    /\ comparison.similarity_score = 75
    /\ SatisfiedChecks = {"gender", "age", "interests"}

\* C15: for a list of no members analyze_audience returns a well-formed
\* profile: total_members 0, every gender and age-bracket percentage present
\* and 0, no cities, no interests, no recommendations.
C15_EmptyListGivesZeroProfile ==
    (apc = "analyzed" /\ aMembers = <<>>) =>
        /\ {"total_members", "gender", "age_groups", "cities", "interests",
             "recommendations"} \subseteq ProfileKeys(profile)
        /\ profile.total_members = 0
        /\ \A g \in GenderNames : profile.gender[g] = 0
        /\ \A g \in AgeGroupNames : profile.age_groups[g] = 0
        /\ profile.cities = <<>> /\ profile.interests = <<>>
        /\ profile.recommendations = <<>>

\* C16: the profile of a non-empty list carries a quality score between 0
\* and 100.
C16_ProfileCarriesQualityScore ==
    (apc = "analyzed" /\ aMembers # <<>>) =>
        /\ "audience_quality_score" \in ProfileKeys(profile)
        /\ profile.audience_quality_score \in 0..100

\* The place of a rule in the fixed order gender, age, city, interests.
RuleRank(rule) ==
    CASE rule \in {"male", "female"} -> 1
      [] rule = "age" -> 2
      [] rule = "city" -> 3
      [] rule = "interests" -> 4

\* C17: the recommendations of a finished profile are at most 5, in the
\* order gender, age, city, interests, with each present exactly when its
\* threshold holds: male share above 70 or else female share above 70 (never
\* both), the largest age bracket above 40 (and it names that bracket), the
\* largest city share above 30 (and it names a city of that share), at least
\* one interest in the profile (and it names the first three); computing
\* them leaves the rest of the profile as the aggregation made it.
C17_RecommendationsFollowThresholds ==
    (apc = "analyzed" /\ aMembers # <<>>) =>
        LET recs == profile.recommendations
            rules == {recs[i].rule : i \in 1..Len(recs)}
            Named(rule) == (CHOOSE i \in 1..Len(recs) : recs[i].rule = rule)
            topAge == {g \in AgeGroupNames :
                          \A h \in AgeGroupNames : profile.age_groups[h] <= profile.age_groups[g]}
            topCity == {i \in 1..Len(profile.cities) :
                           \A j \in 1..Len(profile.cities) :
                               profile.cities[j].value <= profile.cities[i].value}
            aggregated == Finish(CountMembers(NewAnalysis(Len(aMembers)), aMembers,
                                              today, setOrder))
        IN  /\ Len(recs) <= 5
            /\ \A i, j \in 1..Len(recs) : (i < j) => RuleRank(recs[i].rule) < RuleRank(recs[j].rule)
            /\ ("male" \in rules) <=> (profile.gender.male > 700)
            /\ ("female" \in rules) <=> (profile.gender.female > 700)
            /\ ~("male" \in rules /\ "female" \in rules)
            /\ ("age" \in rules) <=> (\E g \in AgeGroupNames : profile.age_groups[g] > 400)
            /\ ("age" \in rules) => recs[Named("age")].names \in topAge
            /\ ("city" \in rules) <=>
                  (\E i \in 1..Len(profile.cities) : profile.cities[i].value > 300)
            /\ ("city" \in rules) =>
                  (\E i \in topCity : profile.cities[i].key = recs[Named("city")].names)
            /\ ("interests" \in rules) <=> (profile.interests # <<>>)
            /\ ("interests" \in rules) =>
                  recs[Named("interests")].names
                      = [i \in 1..Min(3, Len(profile.interests)) |-> profile.interests[i].key]
            /\ \A k \in DOMAIN aggregated \ {"recommendations"} : profile[k] = aggregated[k]

\* A profile for which all four rules fire.
C17_Witness ==
    /\ apc = "analyzed" /\ aMembers # <<>>
    /\ Len(profile.recommendations) = 4
    /\ Len(profile.cities) >= 2

\* The interests a member mentions: the items of its six fields, trimmed and
\* lowercased, as a set.
Mentions(mem) ==
    LET items == AllItems(mem, 1) IN {items[i] : i \in 1..Len(items)}

\* Every interest of the profile is counted once for each member that
\* mentions it, however often and in whatever case, and the profile holds at
\* most 20 interests.
InterestsCountedOncePerMember ==
    (apc = "analyzed" /\ aMembers # <<>>) =>
        /\ Len(profile.interests) <= 20
        /\ \A i \in 1..Len(profile.interests) :
              LET Has(mem) == profile.interests[i].key \in Mentions(mem)
              IN  profile.interests[i].value = Cardinality(MembersWith(Has))

\* C18: a member who mentions an interest several times adds one to its
\* frequency, the profile holds at most 20 interests, and the value of each
\* is its frequency as a percentage of all members, so at most 100.
C18_InterestsArePercentages ==
    (apc = "analyzed" /\ aMembers # <<>>) =>
        /\ Len(profile.interests) <= 20
        /\ \A i \in 1..Len(profile.interests) :
              LET Has(mem) == profile.interests[i].key \in Mentions(mem)
              IN  /\ profile.interests[i].value
                        = Percent(Cardinality(MembersWith(Has)), Len(aMembers))
                  /\ profile.interests[i].value <= 1000

\* The titles of the cities the members give, as they give them.
Titles ==
    {CityOf(aMembers[i])[1] : i \in {j \in 1..Len(aMembers) :
                                        CityOf(aMembers[j]) # Absent /\ CityOf(aMembers[j])[1] # ""}}

LivesIn(title) == {i \in 1..Len(aMembers) : CityOf(aMembers[i]) = Some(title)}

RECURSIVE SumValues(_)
SumValues(entries) ==
    IF entries = <<>> THEN 0 ELSE Head(entries).value + SumValues(Tail(entries))

\* C19: the cities of a profile are at most 10, each a title some member
\* gives, unchanged, and no title twice; no city left out has more members
\* than a city kept; each value is the number of members of that title as a
\* one-decimal percentage of all members; the values add up to at most 100,
\* give or take 0.05 for each city.
C19_TopCitiesAsPercentages ==
    (apc = "analyzed" /\ aMembers # <<>>) =>
        LET cities == profile.cities
            kept == {cities[i].key : i \in 1..Len(cities)}
        IN  /\ Len(cities) <= 10
            /\ Len(cities) = Min(10, Cardinality(Titles))
            /\ kept \subseteq Titles
            /\ Cardinality(kept) = Len(cities)
            /\ \A out \in Titles \ kept : \A in \in kept :
                  Cardinality(LivesIn(out)) <= Cardinality(LivesIn(in))
            /\ \A i \in 1..Len(cities) :
                  cities[i].value = Percent(Cardinality(LivesIn(cities[i].key)), Len(aMembers))
            /\ 2 * SumValues(cities) <= 2000 + Len(cities)

\* A list whose members give more than 10 titles, one of the later ones more
\* often than the earlier ones.
C19_Witness ==
    /\ apc = "analyzed"
    /\ Cardinality(Titles) > 10
    /\ Len(profile.cities) = 10
    /\ \E t \in Titles : t \notin {profile.cities[i].key : i \in 1..Len(profile.cities)}

\* C20: the record group resolution returns, the group_id given to
\* get_group_members and the group_id given to save_analysis all carry a
\* positive number, whatever sign the id has in the response.
C20_GroupIdsPositive ==
    /\ (resolved # NoneV) => resolved.id[1] > 0
    /\ (harvestGroup # Absent) => harvestGroup[1] > 0
    /\ (savedGroup # Absent) =>
          (IntOf(savedGroup[1]) # Absent /\ IntOf(savedGroup[1])[1] > 0)

\* The number of requests ceil(limit / page size) allows, as a test on k.
WithinCeiling(k, lim) ==
    IF lim <= 0 THEN k = 0 ELSE (k - 1) * PageSize(lim) < lim

\* The harvest stops where C22 says: no request for a limit of 0 or less, at
\* most ceil(limit / page size) requests, and none after the limit was
\* reached or a page came short, empty or failed.
HarvestStopsInTime ==
    /\ WithinCeiling(Len(pageLog), limit)
    /\ (lastPage \in {"short", "empty", "failed", "bad_structure", "exception"})
          => pc = "returned"
    /\ (Total(members) >= limit) => pc = "returned"

\* C22: for every limit and every sequence of page responses
\* get_group_members returns after finitely many requests, at most
\* ceil(limit / page size) of them and none for a limit of 0 or less; it
\* asks for no further page once the limit is reached or a page is short,
\* empty or failed.
C22_HarvestTerminates == []HarvestStopsInTime /\ <>(pc = "returned")

\* A harvest of three full pages for a limit of 2500.
C22_Witness ==
    /\ pc = "returned" /\ limit = 2500
    /\ Len(pageLog) = 3 /\ lastPage = "full"

\* The offsets asked for so far: the i-th request asks for the offset equal
\* to the number of records of the pages before it, each above the one before,
\* and the offset held for the next request counts all records received.
OffsetsFollowReceived ==
    /\ \A i \in 1..Len(pageLog) :
          /\ Len(received) >= i - 1
          /\ pageLog[i].offset = Total(SubSeq(received, 1, i - 1))
    /\ \A i, j \in 1..Len(pageLog) : i < j => pageLog[i].offset < pageLog[j].offset
    /\ \A i \in 1..Len(received) : received[i].page = i
    /\ offset = Total(received)
    /\ (lastPage \in {"failed", "bad_structure", "short", "empty"}) => pc = "returned"

\* C23 as stated: the offsets follow the records received and the list
\* returned by the loop is the concatenation of the pages.
C23_ResultIsConcatenation ==
    /\ OffsetsFollowReceived
    /\ (pc = "returned" /\ lastPage # "exception") => result = received

\* C23: within one harvest the offsets asked for are 0 and then the number
\* of records received so far, strictly increasing, none asked for twice;
\* the returned list is the concatenation of the pages in request order cut
\* to its first limit records when the last full page took it to the limit
\* or past it, and the empty list when an exception ended the loop.
C23_OffsetsAndOrder ==
    /\ OffsetsFollowReceived
    /\ (pc = "returned" /\ lastPage # "exception")
          => result = (IF lastPage = "full" THEN Truncate(received, limit) ELSE received)
    /\ (pc = "returned" /\ lastPage = "exception") => result = <<>>

\* Three full pages for a limit of 2500: offsets 0, 1000, 2000 and a list
\* of 2500 out of 3000 records received.
C23_Witness ==
    /\ pc = "returned" /\ limit = 2500 /\ Len(pageLog) = 3
    /\ pageLog[2].offset = MaxPerRequest /\ pageLog[3].offset = 2 * MaxPerRequest
    /\ Total(received) = 3 * MaxPerRequest /\ Total(result) = 2500

\* C21: /compare with two links that resolve to open groups with non-empty
\* harvests sends the comparison report built from compare_audiences, never
\* the generic error message.
C21_CompareSendsReport == apc # "compare_error"

\* The words that mark a numbered segment, and the digits of a segment that
\* is one of them followed by digits only (<<>> for any other segment).
NumberWords == {PublicWord, ClubWord, EventWord}

DigitsOfNumbered(seg) ==
    IF \E w \in NumberWords : StartsWith(seg, w) /\ IsDigit(Drop(seg, Len(w)))
    THEN Drop(seg, Len(CHOOSE w \in NumberWords :
                           StartsWith(seg, w) /\ IsDigit(Drop(seg, Len(w)))))
    ELSE <<>>

\* The links whose path ends in a non-empty segment.
HasSegment(lnk) ==
    LET lnk0 == LStrip(Strip(lnk, Whitespace), {"@"})
    IN  /\ ~IsDigit(lnk0)
        /\ ~UrlRaises(IF StartsWith(lnk0, HttpPrefix) \/ StartsWith(lnk0, HttpsPrefix)
                      THEN lnk0 ELSE HttpsPrefix \o lnk0)
        /\ LastSegment(lnk) # <<>>

\* C25: a last path segment club<digits>, public<digits> or event<digits>
\* gives the digits, and every other non-empty last segment gives the
\* segment itself, also one that only begins with club, public or event.
C25_FirstMatchWins ==
    (rDone /\ HasSegment(rLink)) =>
        rOut = IF DigitsOfNumbered(LastSegment(rLink)) # <<>>
               THEN Some(DigitsOfNumbered(LastSegment(rLink)))
               ELSE Some(LastSegment(rLink))

\* What holds of the segments: a numbered segment gives its digits, and a
\* segment that begins with none of the three words gives itself.
SegmentsOutsideTheWords ==
    (rDone /\ HasSegment(rLink)) =>
        /\ DigitsOfNumbered(LastSegment(rLink)) # <<>>
              => rOut = Some(DigitsOfNumbered(LastSegment(rLink)))
        /\ (\A w \in NumberWords : ~StartsWith(LastSegment(rLink), w))
              => rOut = Some(LastSegment(rLink))

\* The record the approaches resolved carries a truthy 'deactivated'.
IsDeactivated(rec) == rec # NoneV /\ Get(rec.deactivated, "") # ""

\* C26: when the resolved record carries a deactivation marker, what
\* get_group_info hands to its caller differs from what it hands over for a
\* group that was not found or a request that failed (None), the run does
\* not end as "not found", and no member request is made.
C26_DeactivatedDistinguished ==
    (ResolutionOver /\ IsDeactivated(resolved)) =>
        /\ groupInfo # NoneV
        /\ outcome # "not_found"
        /\ pageLog = <<>>

\* What holds for a deactivated group: the run ends without a member request.
DeactivatedNoMemberFetch ==
    (ResolutionOver /\ IsDeactivated(resolved)) => (pc = "done" /\ pageLog = <<>>)

\* The group object a response holds, for a response a record is extracted from.
RawItem(p) == IF p.shape = "nested" THEN p.inner.items[1] ELSE p.items[1]

\* Two extracted records agree in everything but the screen name.
SameRecord(a, b) ==
    /\ a # NoneV /\ b # NoneV
    /\ a.id = b.id /\ a.name = b.name /\ a.is_closed = b.is_closed
    /\ a.members_count = b.members_count /\ a.deactivated = b.deactivated

\* C29: a record extracted from a response whose group object lacks
\* is_closed carries is_closed = 1, one whose object lacks members_count
\* carries members_count = 0, and a run that resolved to such a record ends
\* without entering the harvest and without a groups.getMembers request.
C29_UnreportedNeverHarvested ==
    (ResolutionOver /\ resolved # NoneV) =>
        \A p \in GroupPayloads :
            SameRecord(ExtractGroupInfo(p), resolved) =>
                /\ RawItem(p).is_closed = Absent
                      => (resolved.is_closed = <<1>> /\ pc = "done" /\ pageLog = <<>>)
                /\ RawItem(p).members_count = Absent
                      => (resolved.members_count = <<0>> /\ pc = "done" /\ pageLog = <<>>)

\* A run resolved to a record whose screen name is the one letter a response
\* supplied and whose is_closed is 1, which among the objects with a screen
\* name only one without is_closed gives, and ended as a closed group.
C29_Witness ==
    /\ pc = "done" /\ outcome = "group_closed" /\ pageLog = <<>>
    /\ resolved # NoneV /\ Len(resolved.screen_name[1]) = 1
    /\ resolved.is_closed = <<1>>
    /\ \E p \in GroupPayloads :
          SameRecord(ExtractGroupInfo(p), resolved) /\ RawItem(p).is_closed = Absent

\* The group a run harvests was resolved, is open and reports members.
FitForHarvest == groupInfo # NoneV /\ ~GroupClosed(groupInfo) /\ ~GroupEmpty(groupInfo)

\* C24: in /analyze, /quick, /compare, /competitors and /text_analysis no
\* groups.getMembers request is issued unless the link resolved to a record
\* that is open and reports members, and a link that extract_group_id cannot
\* resolve causes no request at all.
C24_NoFetchForUnfitGroup ==
    /\ pageLog # <<>> => FitForHarvest
    /\ (pc # "idle" /\ groupId = Absent) => (reqLog = <<>> /\ pageLog = <<>>)

\* What holds: /analyze, /quick and /competitors request members only of a
\* fit group, no command requests members of a group that did not resolve,
\* /compare none of a closed group, and an unresolvable link causes no request.
FetchGuardsThatHold ==
    /\ (pageLog # <<>> /\ command \in {"analyze", "quick", "competitors"}) => FitForHarvest
    /\ pageLog # <<>> => groupInfo # NoneV
    /\ (pageLog # <<>> /\ command = "compare") => ~GroupClosed(groupInfo)
    /\ (pc # "idle" /\ groupId = Absent) => (reqLog = <<>> /\ pageLog = <<>>)

\* The session is gone or its status is 'completed'.
Unlocked(s) == s = NoSession \/ s.status = Some("completed")

\* C27: every step that ends a run of cmd_analyze (a run exists only after
\* it marked its caller's session 'analyzing'), on any path, leaves that
\* caller's session deleted or with status 'completed'.
C27_AnalyzeEndsUnlocked ==
    [][\A t \in TaskIds :
          (tasks[t].kind = "analyze" /\ tasks'[t] = IdleTask)
              => Unlocked(sessions'[tasks[t].user])]_vars

\* A caller whose /analyze run has ended with its report: no run of theirs is
\* in progress and the session is 'completed'.
C27_Witness ==
    \E u \in Users :
        /\ sessions[u] # NoSession
        /\ sessions[u].status = Some("completed")
        /\ sessions[u].report # Absent /\ sessions[u].report[1].by = "analyze"
        /\ \A t \in TaskIds : tasks[t] = IdleTask

\* C28: no callback handler renders cached report data created more than
\* 3600 seconds before.
C28_NoStaleRender == rendered # "stale"

\* The first rendering of stale data comes from the step of back_to_report,
\* which stores the report data again under the present time.
StaleOnlyFromBackToReport ==
    [][(rendered # "stale" /\ rendered' = "stale") =>
          \E u \in Users :
              /\ sessions[u] # NoSession /\ sessions[u].report # Absent
              /\ Stale(sessions[u].report[1].created_at, clock)
              /\ sessions'[u].report = Some([by |-> "analyze", created_at |-> clock])]_vars

\* The step is a call of save_analysis.
IsSave == saves' = saves + 1

\* total_analyses of a user, 0 for a user without a row.
TotalOf(st, u) == Get(st[u], 0)

\* A call that returned True added one row to analyses and one to the
\* caller's total and changed no other user's row; one that returned False
\* changed neither table.
SaveFrame ==
    /\ saveLast'.returned =>
          /\ analyses' = Append(analyses, analyses'[Len(analyses')])
          /\ analyses'[Len(analyses')].user_id = saveLast'.user
          /\ TotalOf(stats', saveLast'.user) = TotalOf(stats, saveLast'.user) + 1
          /\ \A u \in Users \ {saveLast'.user} : stats'[u] = stats[u]
    /\ ~saveLast'.returned => (analyses' = analyses /\ stats' = stats)

\* C30: a save_analysis call that returns True adds exactly one analysis
\* record and one to that user's total_analyses, and a call that returns
\* False leaves analyses and stats unchanged; the save for a user with no
\* stats row, when the database accepts it, returns True and leaves that
\* user with total_analyses = 1.
C30_SaveCountsOnce ==
    [][IsSave =>
          /\ SaveFrame
          /\ (stats[saveLast'.user] = Absent /\ saveLast'.db = "ok")
                => (saveLast'.returned /\ stats'[saveLast'.user] = Some(1))]_vars

\* What holds: the frame of every call.
SaveFrameHolds == [][IsSave => SaveFrame]_vars

\* A user without a stats row never gets one: each of their calls returns
\* False and stores nothing.
NoRowNoSave ==
    [][(IsSave /\ stats[saveLast'.user] = Absent)
          => (~saveLast'.returned /\ analyses' = analyses /\ stats' = stats)]_vars

====
